---- MODULE Spec2Model ----
(***************************************************************************)
(* Market data aggregation of backend/app/services/market_data.py:         *)
(* fetch_all_market_data fans out one quote fetch and one news fetch per   *)
(* symbol plus one macro fetch, gathers them with return_exceptions=True   *)
(* and assembles the snapshot.                                             *)
(*                                                                         *)
(* Python values are modelled as follows.  A dict is a function whose      *)
(* DOMAIN is the set of its keys.  A nullable number is a sequence: None   *)
(* is <<>> and the number v is <<v>>.  Prices, ratios and percentages are  *)
(* integers (percentages and ratios in hundredths once rounded).  An entry *)
(* of gather's result list is tagged with its Python type: "dict", "list", *)
(* "str" or "exc" (an exception object, carrying its message).  Two more   *)
(* tags mark a coroutine that has no entry in the list: "exit" (the task   *)
(* re-raised an exit request into the event loop) and "lost" (the error of *)
(* the threaded call never reached the awaiting coroutine).                *)
(***************************************************************************)
EXTENDS Integers, Sequences, FiniteSets, TLC

\* Longest symbol list of a single call.
MaxSyms == 2

\* Longest symbol list when the call is made twice.
MaxSymsTwice == 2

\* Longest price or volume history the quote provider returns.
MaxHistLen == 22

\* Worker threads of the executor asyncio.to_thread dispatches to: no
\* executor is configured, and the default one has min(32, cpu_count + 4)
\* threads, which is 5 on a single CPU and more on any other machine.
PoolWorkers == 5

\* Longest symbol list of a call whose blocking calls compete for workers:
\* with PoolWorkers symbols there is one call more than the default
\* executor has threads.
MaxPoolSyms == 5

\* The ticker symbols a caller may pass.
SymUniverse == {"AAPL", "MSFT"}

\* A portfolio whose leading holdings make up the longer symbol lists.
Portfolio == <<"AAPL", "MSFT", "GOOG", "AMZN", "NVDA", "TSLA">>

None == <<>>

Some(v) == <<v>>

\* Python truthiness of a nullable number: None and 0 are falsy.
Truthy(x) == x # None /\ x[1] # 0

\* Python's `a or b`.
PyOr(a, b) == IF Truthy(a) THEN a ELSE b

\* Lists of unique symbols over S of length 0..n.
RECURSIVE UniqueSeqs(_, _)
UniqueSeqs(S, n) ==
    IF n = 0 THEN {<<>>}
    ELSE LET shorter == UniqueSeqs(S, n - 1)
         IN  shorter \cup
             { Append(p[1], p[2]) :
                 p \in { x \in shorter \X S :
                           /\ Len(x[1]) = n - 1
                           /\ \A i \in 1..Len(x[1]) : x[1][i] # x[2] } }

RECURSIVE SumSeq(_)
SumSeq(q) == IF q = <<>> THEN 0 ELSE Head(q) + SumSeq(Tail(q))

\* The last n elements of q (pandas .iloc[-n:]).
LastN(q, n) == IF Len(q) <= n THEN q ELSE SubSeq(q, Len(q) - n + 1, Len(q))

Max(a, b) == IF a >= b THEN a ELSE b

\* num/den rounded to the nearest integer, ties to even; den > 0.
RoundHalfEven(num, den) ==
    LET q == num \div den
        r == num - q * den
    IN  IF 2 * r < den THEN q
        ELSE IF 2 * r > den THEN q + 1
        ELSE IF q % 2 = 0 THEN q ELSE q + 1

\* num/den lies exactly halfway between two integers; den > 0.
IsTie(num, den) == 2 * (num % den) = den

(***************************************************************************)
(* IEEE 754 binary64 arithmetic.  The prices and volumes of a history are  *)
(* numpy.float64 scalars (pandas), so /, * and round act on doubles.  A    *)
(* natural number is its sequence of bits, most significant first and      *)
(* without leading zeros (0 is <<>>); a non-negative double is [m, e] with *)
(* value m * 2^e and m of at most Precision bits.                          *)
(***************************************************************************)

\* Bits of the significand of a double.
Precision == 53

Zeros(k) == [i \in 1..k |-> 0]

RECURSIVE Pow2(_)
Pow2(k) ==
    IF k = 0 THEN 1
    ELSE IF k % 2 = 1 THEN 2 * Pow2(k - 1)
    ELSE Pow2(k \div 2) * Pow2(k \div 2)

\* The lowest width bits of k.
BitsOf(k, width) == [i \in 1..width |-> (k \div Pow2(width - i)) % 2]

Strip(b) ==
    IF \A i \in 1..Len(b) : b[i] = 0 THEN <<>>
    ELSE SubSeq(b,
                CHOOSE i \in 1..Len(b) :
                    b[i] = 1 /\ \A j \in 1..(i - 1) : b[j] = 0,
                Len(b))

\* Bits of the natural number k < 2^31.
ToBits(k) == Strip(BitsOf(k, 31))

\* The number whose bits are b, below 2^31.
RECURSIVE FromBits(_)
FromBits(b) ==
    IF Len(b) = 0 THEN 0
    ELSE IF Len(b) = 1 THEN b[1]
    ELSE FromBits(SubSeq(b, 1, Len(b) \div 2)) * Pow2(Len(b) - Len(b) \div 2)
             + FromBits(SubSeq(b, Len(b) \div 2 + 1, Len(b)))

\* a < b.
Less(a, b) ==
    \/ Len(a) < Len(b)
    \/ /\ Len(a) = Len(b)
       /\ \E i \in 1..Len(a) :
            /\ a[i] < b[i]
            /\ \A j \in 1..(i - 1) : a[j] = b[j]

\* a - b, for a >= b: bit i borrows when the lower bits of a are less than
\* those of b.
Sub(a, b) ==
    LET len == Len(a)
        bb == Zeros(len - Len(b)) \o b
        Borrow(i) ==
            \E k \in (i + 1)..len :
                /\ a[k] < bb[k]
                /\ \A j \in (i + 1)..(k - 1) : a[j] = bb[j]
    IN  Strip([i \in 1..len |->
                 (a[i] - bb[i] - (IF Borrow(i) THEN 1 ELSE 0) + 2) % 2])

\* Bits from..to of b, counted from the least significant bit 1.
LowBits(b, from, to) ==
    IF Len(b) < from THEN <<>>
    ELSE SubSeq(b, Max(1, Len(b) - to + 1), Len(b) - from + 1)

\* b * 100, for b of at most 60 bits, in three pieces of 20 bits.
Mul100(b) ==
    LET low == FromBits(LowBits(b, 1, 20)) * 100
        mid == FromBits(LowBits(b, 21, 40)) * 100 + low \div Pow2(20)
        high == FromBits(LowBits(b, 41, 60)) * 100 + mid \div Pow2(20)
    IN  Strip(BitsOf(high, 31) \o BitsOf(mid % Pow2(20), 20)
                  \o BitsOf(low % Pow2(20), 20))

\* b + 1.
IncBits(b) ==
    IF \A i \in 1..Len(b) : b[i] = 1 THEN <<1>> \o Zeros(Len(b))
    ELSE LET last == CHOOSE i \in 1..Len(b) :
                         b[i] = 0 /\ \A j \in (i + 1)..Len(b) : b[j] = 1
         IN  [i \in 1..Len(b) |->
                 IF i < last THEN b[i] ELSE IF i = last THEN 1 ELSE 0]

\* The double nearest to bits * 2^e (plus a fraction of the last bit when
\* sticky), ties to even.
RoundToDouble(bits, e, sticky) ==
    IF Len(bits) <= Precision THEN [m |-> bits, e |-> e]
    ELSE LET keep == SubSeq(bits, 1, Precision)
             rest == sticky \/ \E i \in (Precision + 2)..Len(bits) : bits[i] = 1
             up == bits[Precision + 1] = 1 /\ (rest \/ keep[Precision] = 1)
             m == IF up THEN IncBits(keep) ELSE keep
             shift == Len(bits) - Precision
         IN  IF Len(m) > Precision
             THEN [m |-> SubSeq(m, 1, Precision), e |-> e + shift + 1]
             ELSE [m |-> m, e |-> e + shift]

\* float(k) for a natural number k.
FromInt(k) == RoundToDouble(ToBits(k), 0, FALSE)

\* One step of long division by den: the next quotient bit is appended to
\* acc and the remainder is doubled.
DivStep(s, den) ==
    IF s.rem = <<>> THEN [rem |-> <<>>, acc |-> Append(s.acc, 0)]
    ELSE IF Less(s.rem, den)
    THEN [rem |-> Append(s.rem, 0), acc |-> Append(s.acc, 0)]
    ELSE IF s.rem = den THEN [rem |-> <<>>, acc |-> Append(s.acc, 1)]
    ELSE [rem |-> Append(Sub(s.rem, den), 0), acc |-> Append(s.acc, 1)]

\* k steps of long division; once the remainder is 0 every further bit is 0.
RECURSIVE DivSteps(_, _, _)
DivSteps(s, den, k) ==
    IF s.rem = <<>> THEN [rem |-> <<>>, acc |-> s.acc \o Zeros(k)]
    ELSE IF k = 0 THEN s
    ELSE IF k = 1 THEN DivStep(s, den)
    ELSE DivSteps(DivSteps(s, den, k \div 2), den, k - k \div 2)

\* The first k bits of rem / den, the first of weight 1, and whether bits
\* are left over.
DivBits(rem, den, k) ==
    LET s == DivSteps([rem |-> rem, acc |-> <<>>], den, k)
    IN  [q |-> Strip(s.acc), sticky |-> s.rem # <<>>]

\* x / y on doubles, y # 0.
FDiv(x, y) ==
    IF x.m = <<>> THEN x
    ELSE LET len == Max(Len(x.m), Len(y.m))
             num == x.m \o Zeros(len - Len(x.m))
             den == y.m \o Zeros(len - Len(y.m))
             d == DivBits(num, den, Precision + 2)
         IN  RoundToDouble(d.q,
                           (x.e - (len - Len(x.m))) - (y.e - (len - Len(y.m)))
                               - (Precision + 1),
                           d.sticky)

\* x * 100 on doubles.
FMul100(x) == RoundToDouble(Mul100(x.m), x.e, FALSE)

\* The integer nearest to the double x, ties to even (numpy.rint).
Rint(x) ==
    IF x.e >= 0 THEN FromBits(x.m \o Zeros(x.e))
    ELSE LET len == Len(x.m)
             frac == 0 - x.e
             whole == IF frac >= len THEN 0 ELSE FromBits(SubSeq(x.m, 1, len - frac))
             half == frac <= len /\ x.m[len - frac + 1] = 1
             rest == \E i \in (len - frac + 2)..len : i >= 1 /\ x.m[i] = 1
         IN  IF half /\ (rest \/ whole % 2 = 1) THEN whole + 1 ELSE whole

\* round(x, 2) of a numpy.float64, in hundredths: rint(x * 100) / 100.
Round2(x) == Rint(FMul100(x))

Abs(k) == IF k < 0 THEN 0 - k ELSE k

\* round(((now - ago) / ago) * 100, 2) in hundredths of a percent, for
\* ago > 0.  The two roundings of the double arithmetic move the result by
\* less than 2^-50 of its size, which for machine integers is less than the
\* gap between a quotient off a tie and that tie: off a tie the result is the
\* exactly rounded quotient.
PctChange(ago, now) ==
    IF IsTie((now - ago) * 10000, ago)
    THEN (IF now < ago THEN -1 ELSE 1)
             * Round2(FMul100(FDiv(FromInt(Abs(now - ago)), FromInt(ago))))
    ELSE RoundHalfEven((now - ago) * 10000, ago)

\* round(mean5 / mean20, 2) in hundredths, where mean5 = sum5 / 5 and
\* mean20 = sum20 / 20 > 0; exactly rounded off a tie, as in PctChange.
MeanRatio(sum5, sum20) ==
    IF IsTie(sum5 * 400, sum20)
    THEN Round2(FDiv(FDiv(FromInt(sum5), FromInt(5)),
                     FDiv(FromInt(sum20), FromInt(20))))
    ELSE RoundHalfEven(sum5 * 400, sum20)

(***************************************************************************)
(* Quote provider (yfinance) and the quote adapter.                        *)
(* A provider response for a symbol is one of                              *)
(*   [kind |-> "data", info, hist3m, hist1m]                               *)
(*   [kind |-> "raise", msg]         : the provider raises an Exception    *)
(*                                     that the executor's future hands to *)
(*                                     the awaiting coroutine as raised:   *)
(*                                     any Exception but a StopIteration   *)
(*                                     (subclasses included) and but the   *)
(*                                     class concurrent.futures            *)
(*                                     .CancelledError itself              *)
(*   [kind |-> "stop_iteration", msg]: it raises StopIteration itself,     *)
(*                                     which cannot be raised into a       *)
(*                                     future                              *)
(*   [kind |-> "stop_iteration_subclass", msg]                             *)
(*                                   : it raises an instance of a subclass *)
(*                                     of StopIteration made with the      *)
(*                                     message msg as its one argument;    *)
(*                                     the await ends like a return, with  *)
(*                                     the exception's value, the str msg  *)
(*   [kind |-> "futures_cancelled", msg]: it raises                        *)
(*                                     concurrent.futures.CancelledError,  *)
(*                                     which reaches the coroutine as      *)
(*                                     asyncio.CancelledError              *)
(*   [kind |-> "cancelled_error", msg]: it raises asyncio.CancelledError   *)
(*   [kind |-> "base_exception", msg]: it raises another BaseException     *)
(*                                     that is not an Exception:           *)
(*                                     GeneratorExit or a class of the     *)
(*                                     provider's own                      *)
(*   [kind |-> "system_exit", msg]   : it raises SystemExit or             *)
(*                                     KeyboardInterrupt                   *)
(* msg is str(e) of the error, a string.  info carries info.get(key) for   *)
(* each key read (None when missing); a history is [ok, rows]: ok = FALSE  *)
(* when ticker.history raises.                                             *)
(*                                                                         *)
(* The blocking function runs on a worker thread.  The executor's future   *)
(* records its outcome, here called the outcome of the call:               *)
(*   [tag |-> "value", val]          : the function returned val           *)
(*   [tag |-> "error", kind, msg]    : the error left the function         *)
(* The coroutine that awaits the call is resumed later, on the event loop. *)
(***************************************************************************)

NumericKeys ==
    {"current_price", "fifty_two_week_high", "fifty_two_week_low", "pe_ratio",
     "forward_pe", "market_cap", "perf_1m_pct", "perf_3m_pct",
     "volume_ratio_5d_20d"}

\* perf_3m of lines 36-47, in hundredths of a percent after round(.., 2).
Perf3m(hist) ==
    IF hist.ok /\ Len(hist.rows) >= 2
    THEN LET price_now == hist.rows[Len(hist.rows)]
             price_3m_ago == hist.rows[1]
         IN  Some(PctChange(price_3m_ago, price_now))
    ELSE None

\* perf_1m of lines 36-47, in hundredths of a percent after round(.., 2).
Perf1m(hist) ==
    IF hist.ok /\ Len(hist.rows) >= 2
    THEN LET price_now == hist.rows[Len(hist.rows)]
             one_month_idx == Max(0, Len(hist.rows) - 21)
             price_1m_ago == hist.rows[one_month_idx + 1]
         IN  Some(PctChange(price_1m_ago, price_now))
    ELSE None

\* A buggy volume trend that accepts a history one day short.
VolumeRatioOneDayShort(hist) ==
    IF hist.ok /\ Len(hist.rows) >= 19
    THEN LET sum5 == SumSeq(LastN(hist.rows, 5))
             sum20 == SumSeq(LastN(hist.rows, 20))
         IN  IF sum20 > 0
             THEN Some(MeanRatio(sum5, sum20))
             ELSE None
    ELSE None

\* volume_ratio of lines 50-59, in hundredths after round(.., 2).
VolumeRatio(hist) ==
    IF hist.ok /\ Len(hist.rows) >= 20
    THEN LET sum5 == SumSeq(LastN(hist.rows, 5))
             sum20 == SumSeq(LastN(hist.rows, 20))
         IN  IF sum20 > 0
             THEN Some(MeanRatio(sum5, sum20))
             ELSE None
    ELSE None

\* _fetch_stock_data_sync on a "data" response, stamped at time now.
FetchStockDataSync(symbol, resp, now) ==
    [symbol |-> symbol,
     current_price |-> PyOr(resp.info.currentPrice, resp.info.regularMarketPrice),
     fifty_two_week_high |-> resp.info.fiftyTwoWeekHigh,
     fifty_two_week_low |-> resp.info.fiftyTwoWeekLow,
     pe_ratio |-> resp.info.trailingPE,
     forward_pe |-> resp.info.forwardPE,
     market_cap |-> resp.info.marketCap,
     perf_1m_pct |-> Perf1m(resp.hist3m),
     perf_3m_pct |-> Perf3m(resp.hist3m),
     volume_ratio_5d_20d |-> VolumeRatio(resp.hist1m),
     fetched_at |-> now]

\* The outcome of the call _fetch_stock_data_sync(symbol) on its worker
\* thread, ending at time now: the dict it returns (lines 61-73) or the
\* error yf.Ticker / ticker.info raised (lines 30-31), which nothing in the
\* function catches.
QuoteCall(symbol, resp, now) ==
    IF resp.kind = "data"
    THEN [tag |-> "value", val |-> FetchStockDataSync(symbol, resp, now)]
    ELSE [tag |-> "error", kind |-> resp.kind, msg |-> resp.msg]

\* `await asyncio.to_thread(..)` of lines 78 and 117 in the coroutine, once
\* the call has ended with the outcome call.  A returned value is the value
\* of the await.  An error is raised at the await as it was raised on the
\* thread, with three exceptions: StopIteration itself cannot be set on the
\* future the coroutine awaits (the event loop logs a TypeError and the
\* coroutine is never resumed: "lost"); an instance of a subclass of
\* StopIteration ends the await like a return, with the exception's value;
\* concurrent.futures.CancelledError is raised as asyncio.CancelledError.
to_thread(call) ==
    IF call.tag = "value" THEN [tag |-> "dict", val |-> call.val]
    ELSE CASE call.kind = "stop_iteration" ->
                [tag |-> "lost", val |-> call.msg]
           [] call.kind = "stop_iteration_subclass" ->
                [tag |-> "str", val |-> call.msg]
           [] call.kind = "futures_cancelled" ->
                [tag |-> "raise", kind |-> "cancelled_error", msg |-> call.msg]
           [] OTHER ->
                [tag |-> "raise", kind |-> call.kind, msg |-> call.msg]

\* A buggy handler that keeps stale numeric data next to the error.
QuoteErrorDictKeepsData(symbol, msg, now) ==
    [symbol |-> symbol, error |-> msg, fetched_at |-> now,
     current_price |-> Some(1)]

\* A buggy handler that writes the time of the failure into the message.
QuoteErrorDictStampsMessage(symbol, msg, now) ==
    [symbol |-> symbol, error |-> <<msg, now>>, fetched_at |-> now]

\* The except branch of fetch_stock_data (lines 79-85).
QuoteErrorDict(symbol, msg, now) ==
    [symbol |-> symbol, error |-> msg, fetched_at |-> now]

\* What becomes of a coroutine that an error leaves because `except
\* Exception` does not handle it.  A CancelledError cancels the task, and
\* gather reports a CancelledError that carries no message.  SystemExit and
\* KeyboardInterrupt are re-raised by the task into the event loop ("exit").
\* Any other BaseException is the task's exception, which gather hands over
\* as the result.
Uncaught(raised) ==
    CASE raised.kind = "cancelled_error" -> [tag |-> "exc", val |-> ""]
      [] raised.kind = "system_exit" -> [tag |-> "exit", val |-> raised.msg]
      [] OTHER -> [tag |-> "exc", val |-> raised.msg]

\* The outcome of the coroutine fetch_stock_data(symbol), resumed at time
\* now after its call ended with the outcome call: whatever the await
\* yields is returned as it is (line 78), an Exception raised at the await
\* gives the dict of lines 81-85, any other error leaves the coroutine; when
\* the error of the call is lost the coroutine has no outcome.
FetchStockData(symbol, call, now) ==
    LET awaited == to_thread(call)
    IN  IF awaited.tag # "raise" THEN awaited
        ELSE IF awaited.kind = "raise"
        THEN [tag |-> "dict", val |-> QuoteErrorDict(symbol, awaited.msg, now)]
        ELSE Uncaught(awaited)

(***************************************************************************)
(* Macro provider and the macro fetcher.  A provider response is one of    *)
(*   [kind |-> "labels", per]        : per[label] is [ok, msg, info]; the  *)
(*                                     lookup of that instrument raises an *)
(*                                     Exception when ok = FALSE           *)
(*   [kind |-> "raise", msg], [kind |-> "stop_iteration", msg],            *)
(*   [kind |-> "stop_iteration_subclass", msg],                            *)
(*   [kind |-> "futures_cancelled", msg], [kind |-> "cancelled_error", msg],*)
(*   [kind |-> "base_exception", msg], [kind |-> "system_exit", msg]       *)
(*                                   : the threaded call as a whole raises *)
(*                                     that error, as for a quote          *)
(***************************************************************************)

MACRO_SYMBOLS ==
    [VIX |-> "^VIX", US_10Y_YIELD |-> "^TNX", DXY |-> "DX-Y.NYB",
     CRUDE_OIL |-> "CL=F"]

MacroLabels == DOMAIN MACRO_SYMBOLS

\* A buggy except branch that swallows the failure without recording it.
MacroEntryDropsError(r) ==
    IF r.ok
    THEN [value |-> r.info.regularMarketPrice,
          previous_close |-> r.info.regularMarketPreviousClose,
          change_pct |-> r.info.regularMarketChangePercent]
    ELSE [value |-> None]

\* One iteration of the loop of _fetch_macro_sync (lines 101-111).
MacroEntry(r) ==
    IF r.ok
    THEN [value |-> r.info.regularMarketPrice,
          previous_close |-> r.info.regularMarketPreviousClose,
          change_pct |-> r.info.regularMarketChangePercent]
    ELSE [value |-> None, error |-> r.msg]

\* A buggy loop that leaves out the instruments whose lookup raised.
FetchMacroSyncSkipsFailed(per) ==
    [label \in {l \in MacroLabels : per[l].ok} |-> MacroEntry(per[label])]

\* _fetch_macro_sync: one entry per label of MACRO_SYMBOLS.
FetchMacroSync(per) == [label \in MacroLabels |-> MacroEntry(per[label])]

\* The outcome of the call _fetch_macro_sync() on its worker thread: the
\* dict it returns, or the error that left it.
MacroCall(resp) ==
    IF resp.kind = "labels"
    THEN [tag |-> "value", val |-> FetchMacroSync(resp.per)]
    ELSE [tag |-> "error", kind |-> resp.kind, msg |-> resp.msg]

\* d[key] = v on a dict.
DictSet(d, key, v) ==
    [k \in DOMAIN d \cup {key} |-> IF k = key THEN v ELSE d[k]]

\* str(e) of the TypeError that data["fetched_at"] = .. raises when data is
\* a str.
ItemAssignmentError == "'str' object does not support item assignment"

\* A buggy fetcher that reports any failed lookup as a failure of the whole.
FetchMacroIndicatorsAllOrNothing(call, now) ==
    LET awaited == to_thread(call)
    IN  IF awaited.tag = "dict"
        THEN IF \A label \in MacroLabels : "error" \notin DOMAIN awaited.val[label]
             THEN [tag |-> "dict", val |-> DictSet(awaited.val, "fetched_at", now)]
             ELSE [tag |-> "dict",
                   val |-> [error |-> "macro lookup error", fetched_at |-> now]]
        ELSE IF awaited.tag = "str"
        THEN [tag |-> "dict",
              val |-> [error |-> ItemAssignmentError, fetched_at |-> now]]
        ELSE IF awaited.tag = "lost" THEN awaited
        ELSE IF awaited.kind = "raise"
        THEN [tag |-> "dict", val |-> [error |-> awaited.msg, fetched_at |-> now]]
        ELSE Uncaught(awaited)

\* The outcome of the coroutine fetch_macro_indicators(), resumed at time
\* now after its call ended with the outcome call.  Line 118 stamps the dict
\* the await yields; when the await yields a str instead, line 118 raises a
\* TypeError, which line 120 catches like an Exception raised at the await.
FetchMacroIndicators(call, now) ==
    LET awaited == to_thread(call)
    IN  IF awaited.tag = "dict"
        THEN [tag |-> "dict", val |-> DictSet(awaited.val, "fetched_at", now)]
        ELSE IF awaited.tag = "str"
        THEN [tag |-> "dict",
              val |-> [error |-> ItemAssignmentError, fetched_at |-> now]]
        ELSE IF awaited.tag = "lost" THEN awaited
        ELSE IF awaited.kind = "raise"
        THEN [tag |-> "dict", val |-> [error |-> awaited.msg, fetched_at |-> now]]
        ELSE Uncaught(awaited)

(***************************************************************************)
(* News provider (NewsAPI over httpx) and the news fetcher.  A provider    *)
(* response is one of                                                      *)
(*   [kind |-> "network_error"]  : client.get raises an Exception          *)
(*   [kind |-> "bad_status"]     : raise_for_status raises                 *)
(*   [kind |-> "malformed"]      : resp.json() or the traversal raises     *)
(*   [kind |-> "json", data]     : data is the decoded dict                *)
(*   [kind |-> "base_exception", msg], [kind |-> "cancelled_error", msg],  *)
(*   [kind |-> "system_exit", msg]   : the request raises that error       *)
(* fetch_news runs on the event loop and awaits no thread: every Exception *)
(* raised inside its try block, StopIteration included, is caught there.   *)
(***************************************************************************)

\* dict.get(key, default)
Get(d, key, default) == IF key \in DOMAIN d THEN d[key] ELSE default

\* One element of the comprehension of lines 152-161.
NewsItem(a) ==
    [title |-> Get(a, "title", ""),
     source |-> Get(Get(a, "source", <<>>), "name", ""),
     url |-> Get(a, "url", ""),
     published_at |-> Get(a, "publishedAt", "")]

RECURSIVE MapNews(_)
MapNews(articles) ==
    IF articles = <<>> THEN <<>>
    ELSE LET a == Head(articles)
         IN  IF Get(a, "title", "") # ""
             THEN <<NewsItem(a)>> \o MapNews(Tail(articles))
             ELSE MapNews(Tail(articles))

\* A buggy fetcher without the try/except of lines 146-164.
FetchNewsNoCatch(symbol, key, resp) ==
    IF key = "" THEN [tag |-> "list", val |-> <<>>]
    ELSE CASE resp.kind = "json" ->
                [tag |-> "list", val |-> MapNews(Get(resp.data, "articles", <<>>))]
           [] resp.kind \in {"network_error", "bad_status", "malformed"} ->
                [tag |-> "exc", val |-> resp.kind]
           [] OTHER -> Uncaught(resp)

\* The outcome of the coroutine fetch_news(symbol) under the configured key.
FetchNews(symbol, key, resp) ==
    IF key = "" THEN [tag |-> "list", val |-> <<>>]
    ELSE CASE resp.kind = "json" ->
                [tag |-> "list", val |-> MapNews(Get(resp.data, "articles", <<>>))]
           [] resp.kind \in {"network_error", "bad_status", "malformed"} ->
                [tag |-> "list", val |-> <<>>]
           [] OTHER -> Uncaught(resp)

(***************************************************************************)
(* The responses the providers are drawn from.                             *)
(***************************************************************************)

History(rows) == [ok |-> TRUE, rows |-> rows]

HistoryRaises == [ok |-> FALSE, rows |-> <<>>]

\* 22 daily closes 101..122 and 20 daily volumes whose last 5 average 6 and
\* whose 20 average 4.
FullQuote ==
    [kind |-> "data",
     info |-> [currentPrice |-> Some(150), regularMarketPrice |-> Some(149),
               fiftyTwoWeekHigh |-> Some(200), fiftyTwoWeekLow |-> Some(100),
               trailingPE |-> Some(30), forwardPE |-> Some(25),
               marketCap |-> Some(3000)],
     hist3m |-> History([i \in 1..22 |-> 100 + i]),
     hist1m |-> History([i \in 1..20 |-> IF i <= 10 THEN 3
                                         ELSE IF i <= 15 THEN 4 ELSE 6])]

\* No currentPrice, no P/E, a single close and a history call that raises.
SparseQuote ==
    [kind |-> "data",
     info |-> [currentPrice |-> None, regularMarketPrice |-> Some(42),
               fiftyTwoWeekHigh |-> Some(50), fiftyTwoWeekLow |-> Some(40),
               trailingPE |-> None, forwardPE |-> None,
               marketCap |-> Some(7)],
     hist3m |-> History(<<42>>),
     hist1m |-> HistoryRaises]

\* The errors a provider call may end with, by what becomes of them: the
\* Exception that `except Exception` catches, the errors of a threaded call
\* that its future does not hand to the coroutine as they were raised, and
\* the errors that `except Exception` lets through.
Caught == {"raise"}

ThreadErrors == {"stop_iteration", "stop_iteration_subclass", "futures_cancelled"}

Aborts == {"cancelled_error", "base_exception", "system_exit"}

\* The provider's answers are named, and the state records the name.  Each
\* kind of error that `except Exception` lets through is met by two of the
\* three kinds of operation.
QuoteCases ==
    {"full"} \cup Caught \cup ThreadErrors \cup {"base_exception", "system_exit"}

QuoteResponse(case) ==
    CASE case = "full" -> FullQuote
      [] case = "sparse" -> SparseQuote
      [] case \in Caught \cup ThreadErrors ->
           [kind |-> case, msg |-> "quote provider error"]
      [] OTHER -> [kind |-> case, msg |-> "quote task aborted"]

\* What the provider knows about each macro instrument.
MacroInfo(yf_symbol) ==
    CASE yf_symbol = "^VIX" ->
           [regularMarketPrice |-> Some(18), regularMarketPreviousClose |-> Some(17),
            regularMarketChangePercent |-> Some(5)]
      [] yf_symbol = "^TNX" ->
           [regularMarketPrice |-> Some(4), regularMarketPreviousClose |-> Some(5),
            regularMarketChangePercent |-> Some(-20)]
      [] yf_symbol = "DX-Y.NYB" ->
           [regularMarketPrice |-> Some(104), regularMarketPreviousClose |-> Some(103),
            regularMarketChangePercent |-> None]
      [] OTHER ->
           [regularMarketPrice |-> Some(80), regularMarketPreviousClose |-> Some(82),
            regularMarketChangePercent |-> Some(-2)]

\* The sets of instruments whose lookup raises: none, exactly one, or all
\* four (the provider is down).
FailingSets == {{}, MacroLabels} \cup {{label} : label \in MacroLabels}

MacroCases ==
    {[kind |-> "labels", failing |-> failing] : failing \in FailingSets}
    \cup {[kind |-> kind, failing |-> {}] :
            kind \in Caught \cup ThreadErrors
                     \cup {"base_exception", "cancelled_error"}}

MacroResponse(case) ==
    CASE case.kind = "labels" ->
           [kind |-> "labels",
            per |-> [label \in MacroLabels |->
                       [ok |-> label \notin case.failing,
                        msg |-> "macro lookup error",
                        info |-> MacroInfo(MACRO_SYMBOLS[label])]]]
      [] case.kind \in Caught \cup ThreadErrors ->
           [kind |-> case.kind, msg |-> "macro thread error"]
      [] OTHER -> [kind |-> case.kind, msg |-> "macro task aborted"]

TitledArticle ==
    [title |-> "Apple beats", source |-> [name |-> "Reuters"], url |-> "u1",
     publishedAt |-> "t1"]

UntitledArticle == [source |-> [name |-> "Blog"], url |-> "u2"]

BareArticle == [title |-> "Fed holds"]

\* The request failures fetch_news catches.
RequestFailures == {"network_error", "bad_status", "malformed"}

NewsCases ==
    RequestFailures \cup {"no_articles", "articles"}
    \cup {"cancelled_error", "system_exit"}

NewsResponse(case) ==
    CASE case = "no_articles" -> [kind |-> "json", data |-> [articles |-> <<>>]]
      [] case = "articles" ->
           [kind |-> "json",
            data |-> [articles |-> <<TitledArticle, UntitledArticle, BareArticle>>]]
      [] case \in Aborts -> [kind |-> case, msg |-> "news task aborted"]
      [] OTHER -> [kind |-> case]

\* The answers of a provider that is asked twice: the ordinary ones and one
\* of each way an error ends up in the snapshot.
StableQuoteCases ==
    {"full", "raise", "stop_iteration_subclass", "futures_cancelled",
     "base_exception"}

StableNewsCases == {"articles", "network_error", "cancelled_error"}

StableMacroCases ==
    {[kind |-> "labels", failing |-> failing] :
        failing \in {{}, {"VIX"}, MacroLabels}}
    \cup {[kind |-> kind, failing |-> {}] :
            kind \in {"raise", "stop_iteration_subclass", "cancelled_error"}}

\* The provider has not been asked yet.
Unset == "unset"

UnsetMacro == [kind |-> "unset", failing |-> {}]

(***************************************************************************)
(* The competitor resolver of backend/app/services/competitors.py.  The    *)
(* argument of get_competitors is a string whose case matters, so it is a  *)
(* sequence of characters; the competitors it returns are plain strings.   *)
(* A character is named by itself up to U+00FF and by its code point       *)
(* above ("U+0131" is the dotless i).  str.upper() maps a string character *)
(* by character with Unicode's full case mapping, which is not limited to  *)
(* a-z and may give several characters for one: the tables below are those *)
(* of Python 3.11 (Unicode 14.0).                                          *)
(***************************************************************************)

\* <<lower, upper>> for every pair of characters that str.upper() and
\* str.lower() map to each other.
CasePairs ==
    <<
      <<"a", "A">>, <<"b", "B">>, <<"c", "C">>, <<"d", "D">>, <<"e", "E">>,
      <<"f", "F">>, <<"g", "G">>, <<"h", "H">>, <<"i", "I">>, <<"j", "J">>,
      <<"k", "K">>, <<"l", "L">>, <<"m", "M">>, <<"n", "N">>, <<"o", "O">>,
      <<"p", "P">>, <<"q", "Q">>, <<"r", "R">>, <<"s", "S">>, <<"t", "T">>,
      <<"u", "U">>, <<"v", "V">>, <<"w", "W">>, <<"x", "X">>, <<"y", "Y">>,
      <<"z", "Z">>, <<"à", "À">>, <<"á", "Á">>, <<"â", "Â">>, <<"ã", "Ã">>,
      <<"ä", "Ä">>, <<"å", "Å">>, <<"æ", "Æ">>, <<"ç", "Ç">>, <<"è", "È">>,
      <<"é", "É">>, <<"ê", "Ê">>, <<"ë", "Ë">>, <<"ì", "Ì">>, <<"í", "Í">>,
      <<"î", "Î">>, <<"ï", "Ï">>, <<"ð", "Ð">>, <<"ñ", "Ñ">>, <<"ò", "Ò">>,
      <<"ó", "Ó">>, <<"ô", "Ô">>, <<"õ", "Õ">>, <<"ö", "Ö">>, <<"ø", "Ø">>,
      <<"ù", "Ù">>, <<"ú", "Ú">>, <<"û", "Û">>, <<"ü", "Ü">>, <<"ý", "Ý">>,
      <<"þ", "Þ">>, <<"ÿ", "U+0178">>, <<"U+0101", "U+0100">>,
      <<"U+0103", "U+0102">>, <<"U+0105", "U+0104">>, <<"U+0107", "U+0106">>,
      <<"U+0109", "U+0108">>, <<"U+010B", "U+010A">>, <<"U+010D", "U+010C">>,
      <<"U+010F", "U+010E">>, <<"U+0111", "U+0110">>, <<"U+0113", "U+0112">>,
      <<"U+0115", "U+0114">>, <<"U+0117", "U+0116">>, <<"U+0119", "U+0118">>,
      <<"U+011B", "U+011A">>, <<"U+011D", "U+011C">>, <<"U+011F", "U+011E">>,
      <<"U+0121", "U+0120">>, <<"U+0123", "U+0122">>, <<"U+0125", "U+0124">>,
      <<"U+0127", "U+0126">>, <<"U+0129", "U+0128">>, <<"U+012B", "U+012A">>,
      <<"U+012D", "U+012C">>, <<"U+012F", "U+012E">>, <<"U+0133", "U+0132">>,
      <<"U+0135", "U+0134">>, <<"U+0137", "U+0136">>, <<"U+013A", "U+0139">>,
      <<"U+013C", "U+013B">>, <<"U+013E", "U+013D">>, <<"U+0140", "U+013F">>,
      <<"U+0142", "U+0141">>, <<"U+0144", "U+0143">>, <<"U+0146", "U+0145">>,
      <<"U+0148", "U+0147">>, <<"U+014B", "U+014A">>, <<"U+014D", "U+014C">>,
      <<"U+014F", "U+014E">>, <<"U+0151", "U+0150">>, <<"U+0153", "U+0152">>,
      <<"U+0155", "U+0154">>, <<"U+0157", "U+0156">>, <<"U+0159", "U+0158">>,
      <<"U+015B", "U+015A">>, <<"U+015D", "U+015C">>, <<"U+015F", "U+015E">>,
      <<"U+0161", "U+0160">>, <<"U+0163", "U+0162">>, <<"U+0165", "U+0164">>,
      <<"U+0167", "U+0166">>, <<"U+0169", "U+0168">>, <<"U+016B", "U+016A">>,
      <<"U+016D", "U+016C">>, <<"U+016F", "U+016E">>, <<"U+0171", "U+0170">>,
      <<"U+0173", "U+0172">>, <<"U+0175", "U+0174">>, <<"U+0177", "U+0176">>,
      <<"U+017A", "U+0179">>, <<"U+017C", "U+017B">>, <<"U+017E", "U+017D">>,
      <<"U+0180", "U+0243">>, <<"U+0183", "U+0182">>, <<"U+0185", "U+0184">>,
      <<"U+0188", "U+0187">>, <<"U+018C", "U+018B">>, <<"U+0192", "U+0191">>,
      <<"U+0195", "U+01F6">>, <<"U+0199", "U+0198">>, <<"U+019A", "U+023D">>,
      <<"U+019E", "U+0220">>, <<"U+01A1", "U+01A0">>, <<"U+01A3", "U+01A2">>,
      <<"U+01A5", "U+01A4">>, <<"U+01A8", "U+01A7">>, <<"U+01AD", "U+01AC">>,
      <<"U+01B0", "U+01AF">>, <<"U+01B4", "U+01B3">>, <<"U+01B6", "U+01B5">>,
      <<"U+01B9", "U+01B8">>, <<"U+01BD", "U+01BC">>, <<"U+01BF", "U+01F7">>,
      <<"U+01C6", "U+01C4">>, <<"U+01C9", "U+01C7">>, <<"U+01CC", "U+01CA">>,
      <<"U+01CE", "U+01CD">>, <<"U+01D0", "U+01CF">>, <<"U+01D2", "U+01D1">>,
      <<"U+01D4", "U+01D3">>, <<"U+01D6", "U+01D5">>, <<"U+01D8", "U+01D7">>,
      <<"U+01DA", "U+01D9">>, <<"U+01DC", "U+01DB">>, <<"U+01DD", "U+018E">>,
      <<"U+01DF", "U+01DE">>, <<"U+01E1", "U+01E0">>, <<"U+01E3", "U+01E2">>,
      <<"U+01E5", "U+01E4">>, <<"U+01E7", "U+01E6">>, <<"U+01E9", "U+01E8">>,
      <<"U+01EB", "U+01EA">>, <<"U+01ED", "U+01EC">>, <<"U+01EF", "U+01EE">>,
      <<"U+01F3", "U+01F1">>, <<"U+01F5", "U+01F4">>, <<"U+01F9", "U+01F8">>,
      <<"U+01FB", "U+01FA">>, <<"U+01FD", "U+01FC">>, <<"U+01FF", "U+01FE">>,
      <<"U+0201", "U+0200">>, <<"U+0203", "U+0202">>, <<"U+0205", "U+0204">>,
      <<"U+0207", "U+0206">>, <<"U+0209", "U+0208">>, <<"U+020B", "U+020A">>,
      <<"U+020D", "U+020C">>, <<"U+020F", "U+020E">>, <<"U+0211", "U+0210">>,
      <<"U+0213", "U+0212">>, <<"U+0215", "U+0214">>, <<"U+0217", "U+0216">>,
      <<"U+0219", "U+0218">>, <<"U+021B", "U+021A">>, <<"U+021D", "U+021C">>,
      <<"U+021F", "U+021E">>, <<"U+0223", "U+0222">>, <<"U+0225", "U+0224">>,
      <<"U+0227", "U+0226">>, <<"U+0229", "U+0228">>, <<"U+022B", "U+022A">>,
      <<"U+022D", "U+022C">>, <<"U+022F", "U+022E">>, <<"U+0231", "U+0230">>,
      <<"U+0233", "U+0232">>, <<"U+023C", "U+023B">>, <<"U+023F", "U+2C7E">>,
      <<"U+0240", "U+2C7F">>, <<"U+0242", "U+0241">>, <<"U+0247", "U+0246">>,
      <<"U+0249", "U+0248">>, <<"U+024B", "U+024A">>, <<"U+024D", "U+024C">>,
      <<"U+024F", "U+024E">>, <<"U+0250", "U+2C6F">>, <<"U+0251", "U+2C6D">>,
      <<"U+0252", "U+2C70">>, <<"U+0253", "U+0181">>, <<"U+0254", "U+0186">>,
      <<"U+0256", "U+0189">>, <<"U+0257", "U+018A">>, <<"U+0259", "U+018F">>,
      <<"U+025B", "U+0190">>, <<"U+025C", "U+A7AB">>, <<"U+0260", "U+0193">>,
      <<"U+0261", "U+A7AC">>, <<"U+0263", "U+0194">>, <<"U+0265", "U+A78D">>,
      <<"U+0266", "U+A7AA">>, <<"U+0268", "U+0197">>, <<"U+0269", "U+0196">>,
      <<"U+026A", "U+A7AE">>, <<"U+026B", "U+2C62">>, <<"U+026C", "U+A7AD">>,
      <<"U+026F", "U+019C">>, <<"U+0271", "U+2C6E">>, <<"U+0272", "U+019D">>,
      <<"U+0275", "U+019F">>, <<"U+027D", "U+2C64">>, <<"U+0280", "U+01A6">>,
      <<"U+0282", "U+A7C5">>, <<"U+0283", "U+01A9">>, <<"U+0287", "U+A7B1">>,
      <<"U+0288", "U+01AE">>, <<"U+0289", "U+0244">>, <<"U+028A", "U+01B1">>,
      <<"U+028B", "U+01B2">>, <<"U+028C", "U+0245">>, <<"U+0292", "U+01B7">>,
      <<"U+029D", "U+A7B2">>, <<"U+029E", "U+A7B0">>, <<"U+0371", "U+0370">>,
      <<"U+0373", "U+0372">>, <<"U+0377", "U+0376">>, <<"U+037B", "U+03FD">>,
      <<"U+037C", "U+03FE">>, <<"U+037D", "U+03FF">>, <<"U+03AC", "U+0386">>,
      <<"U+03AD", "U+0388">>, <<"U+03AE", "U+0389">>, <<"U+03AF", "U+038A">>,
      <<"U+03B1", "U+0391">>, <<"U+03B2", "U+0392">>, <<"U+03B3", "U+0393">>,
      <<"U+03B4", "U+0394">>, <<"U+03B5", "U+0395">>, <<"U+03B6", "U+0396">>,
      <<"U+03B7", "U+0397">>, <<"U+03B8", "U+0398">>, <<"U+03B9", "U+0399">>,
      <<"U+03BA", "U+039A">>, <<"U+03BB", "U+039B">>, <<"U+03BC", "U+039C">>,
      <<"U+03BD", "U+039D">>, <<"U+03BE", "U+039E">>, <<"U+03BF", "U+039F">>,
      <<"U+03C0", "U+03A0">>, <<"U+03C1", "U+03A1">>, <<"U+03C3", "U+03A3">>,
      <<"U+03C4", "U+03A4">>, <<"U+03C5", "U+03A5">>, <<"U+03C6", "U+03A6">>,
      <<"U+03C7", "U+03A7">>, <<"U+03C8", "U+03A8">>, <<"U+03C9", "U+03A9">>,
      <<"U+03CA", "U+03AA">>, <<"U+03CB", "U+03AB">>, <<"U+03CC", "U+038C">>,
      <<"U+03CD", "U+038E">>, <<"U+03CE", "U+038F">>, <<"U+03D7", "U+03CF">>,
      <<"U+03D9", "U+03D8">>, <<"U+03DB", "U+03DA">>, <<"U+03DD", "U+03DC">>,
      <<"U+03DF", "U+03DE">>, <<"U+03E1", "U+03E0">>, <<"U+03E3", "U+03E2">>,
      <<"U+03E5", "U+03E4">>, <<"U+03E7", "U+03E6">>, <<"U+03E9", "U+03E8">>,
      <<"U+03EB", "U+03EA">>, <<"U+03ED", "U+03EC">>, <<"U+03EF", "U+03EE">>,
      <<"U+03F2", "U+03F9">>, <<"U+03F3", "U+037F">>, <<"U+03F8", "U+03F7">>,
      <<"U+03FB", "U+03FA">>, <<"U+0430", "U+0410">>, <<"U+0431", "U+0411">>,
      <<"U+0432", "U+0412">>, <<"U+0433", "U+0413">>, <<"U+0434", "U+0414">>,
      <<"U+0435", "U+0415">>, <<"U+0436", "U+0416">>, <<"U+0437", "U+0417">>,
      <<"U+0438", "U+0418">>, <<"U+0439", "U+0419">>, <<"U+043A", "U+041A">>,
      <<"U+043B", "U+041B">>, <<"U+043C", "U+041C">>, <<"U+043D", "U+041D">>,
      <<"U+043E", "U+041E">>, <<"U+043F", "U+041F">>, <<"U+0440", "U+0420">>,
      <<"U+0441", "U+0421">>, <<"U+0442", "U+0422">>, <<"U+0443", "U+0423">>,
      <<"U+0444", "U+0424">>, <<"U+0445", "U+0425">>, <<"U+0446", "U+0426">>,
      <<"U+0447", "U+0427">>, <<"U+0448", "U+0428">>, <<"U+0449", "U+0429">>,
      <<"U+044A", "U+042A">>, <<"U+044B", "U+042B">>, <<"U+044C", "U+042C">>,
      <<"U+044D", "U+042D">>, <<"U+044E", "U+042E">>, <<"U+044F", "U+042F">>,
      <<"U+0450", "U+0400">>, <<"U+0451", "U+0401">>, <<"U+0452", "U+0402">>,
      <<"U+0453", "U+0403">>, <<"U+0454", "U+0404">>, <<"U+0455", "U+0405">>,
      <<"U+0456", "U+0406">>, <<"U+0457", "U+0407">>, <<"U+0458", "U+0408">>,
      <<"U+0459", "U+0409">>, <<"U+045A", "U+040A">>, <<"U+045B", "U+040B">>,
      <<"U+045C", "U+040C">>, <<"U+045D", "U+040D">>, <<"U+045E", "U+040E">>,
      <<"U+045F", "U+040F">>, <<"U+0461", "U+0460">>, <<"U+0463", "U+0462">>,
      <<"U+0465", "U+0464">>, <<"U+0467", "U+0466">>, <<"U+0469", "U+0468">>,
      <<"U+046B", "U+046A">>, <<"U+046D", "U+046C">>, <<"U+046F", "U+046E">>,
      <<"U+0471", "U+0470">>, <<"U+0473", "U+0472">>, <<"U+0475", "U+0474">>,
      <<"U+0477", "U+0476">>, <<"U+0479", "U+0478">>, <<"U+047B", "U+047A">>,
      <<"U+047D", "U+047C">>, <<"U+047F", "U+047E">>, <<"U+0481", "U+0480">>,
      <<"U+048B", "U+048A">>, <<"U+048D", "U+048C">>, <<"U+048F", "U+048E">>,
      <<"U+0491", "U+0490">>, <<"U+0493", "U+0492">>, <<"U+0495", "U+0494">>,
      <<"U+0497", "U+0496">>, <<"U+0499", "U+0498">>, <<"U+049B", "U+049A">>,
      <<"U+049D", "U+049C">>, <<"U+049F", "U+049E">>, <<"U+04A1", "U+04A0">>,
      <<"U+04A3", "U+04A2">>, <<"U+04A5", "U+04A4">>, <<"U+04A7", "U+04A6">>,
      <<"U+04A9", "U+04A8">>, <<"U+04AB", "U+04AA">>, <<"U+04AD", "U+04AC">>,
      <<"U+04AF", "U+04AE">>, <<"U+04B1", "U+04B0">>, <<"U+04B3", "U+04B2">>,
      <<"U+04B5", "U+04B4">>, <<"U+04B7", "U+04B6">>, <<"U+04B9", "U+04B8">>,
      <<"U+04BB", "U+04BA">>, <<"U+04BD", "U+04BC">>, <<"U+04BF", "U+04BE">>,
      <<"U+04C2", "U+04C1">>, <<"U+04C4", "U+04C3">>, <<"U+04C6", "U+04C5">>,
      <<"U+04C8", "U+04C7">>, <<"U+04CA", "U+04C9">>, <<"U+04CC", "U+04CB">>,
      <<"U+04CE", "U+04CD">>, <<"U+04CF", "U+04C0">>, <<"U+04D1", "U+04D0">>,
      <<"U+04D3", "U+04D2">>, <<"U+04D5", "U+04D4">>, <<"U+04D7", "U+04D6">>,
      <<"U+04D9", "U+04D8">>, <<"U+04DB", "U+04DA">>, <<"U+04DD", "U+04DC">>,
      <<"U+04DF", "U+04DE">>, <<"U+04E1", "U+04E0">>, <<"U+04E3", "U+04E2">>,
      <<"U+04E5", "U+04E4">>, <<"U+04E7", "U+04E6">>, <<"U+04E9", "U+04E8">>,
      <<"U+04EB", "U+04EA">>, <<"U+04ED", "U+04EC">>, <<"U+04EF", "U+04EE">>,
      <<"U+04F1", "U+04F0">>, <<"U+04F3", "U+04F2">>, <<"U+04F5", "U+04F4">>,
      <<"U+04F7", "U+04F6">>, <<"U+04F9", "U+04F8">>, <<"U+04FB", "U+04FA">>,
      <<"U+04FD", "U+04FC">>, <<"U+04FF", "U+04FE">>, <<"U+0501", "U+0500">>,
      <<"U+0503", "U+0502">>, <<"U+0505", "U+0504">>, <<"U+0507", "U+0506">>,
      <<"U+0509", "U+0508">>, <<"U+050B", "U+050A">>, <<"U+050D", "U+050C">>,
      <<"U+050F", "U+050E">>, <<"U+0511", "U+0510">>, <<"U+0513", "U+0512">>,
      <<"U+0515", "U+0514">>, <<"U+0517", "U+0516">>, <<"U+0519", "U+0518">>,
      <<"U+051B", "U+051A">>, <<"U+051D", "U+051C">>, <<"U+051F", "U+051E">>,
      <<"U+0521", "U+0520">>, <<"U+0523", "U+0522">>, <<"U+0525", "U+0524">>,
      <<"U+0527", "U+0526">>, <<"U+0529", "U+0528">>, <<"U+052B", "U+052A">>,
      <<"U+052D", "U+052C">>, <<"U+052F", "U+052E">>, <<"U+0561", "U+0531">>,
      <<"U+0562", "U+0532">>, <<"U+0563", "U+0533">>, <<"U+0564", "U+0534">>,
      <<"U+0565", "U+0535">>, <<"U+0566", "U+0536">>, <<"U+0567", "U+0537">>,
      <<"U+0568", "U+0538">>, <<"U+0569", "U+0539">>, <<"U+056A", "U+053A">>,
      <<"U+056B", "U+053B">>, <<"U+056C", "U+053C">>, <<"U+056D", "U+053D">>,
      <<"U+056E", "U+053E">>, <<"U+056F", "U+053F">>, <<"U+0570", "U+0540">>,
      <<"U+0571", "U+0541">>, <<"U+0572", "U+0542">>, <<"U+0573", "U+0543">>,
      <<"U+0574", "U+0544">>, <<"U+0575", "U+0545">>, <<"U+0576", "U+0546">>,
      <<"U+0577", "U+0547">>, <<"U+0578", "U+0548">>, <<"U+0579", "U+0549">>,
      <<"U+057A", "U+054A">>, <<"U+057B", "U+054B">>, <<"U+057C", "U+054C">>,
      <<"U+057D", "U+054D">>, <<"U+057E", "U+054E">>, <<"U+057F", "U+054F">>,
      <<"U+0580", "U+0550">>, <<"U+0581", "U+0551">>, <<"U+0582", "U+0552">>,
      <<"U+0583", "U+0553">>, <<"U+0584", "U+0554">>, <<"U+0585", "U+0555">>,
      <<"U+0586", "U+0556">>, <<"U+10D0", "U+1C90">>, <<"U+10D1", "U+1C91">>,
      <<"U+10D2", "U+1C92">>, <<"U+10D3", "U+1C93">>, <<"U+10D4", "U+1C94">>,
      <<"U+10D5", "U+1C95">>, <<"U+10D6", "U+1C96">>, <<"U+10D7", "U+1C97">>,
      <<"U+10D8", "U+1C98">>, <<"U+10D9", "U+1C99">>, <<"U+10DA", "U+1C9A">>,
      <<"U+10DB", "U+1C9B">>, <<"U+10DC", "U+1C9C">>, <<"U+10DD", "U+1C9D">>,
      <<"U+10DE", "U+1C9E">>, <<"U+10DF", "U+1C9F">>, <<"U+10E0", "U+1CA0">>,
      <<"U+10E1", "U+1CA1">>, <<"U+10E2", "U+1CA2">>, <<"U+10E3", "U+1CA3">>,
      <<"U+10E4", "U+1CA4">>, <<"U+10E5", "U+1CA5">>, <<"U+10E6", "U+1CA6">>,
      <<"U+10E7", "U+1CA7">>, <<"U+10E8", "U+1CA8">>, <<"U+10E9", "U+1CA9">>,
      <<"U+10EA", "U+1CAA">>, <<"U+10EB", "U+1CAB">>, <<"U+10EC", "U+1CAC">>,
      <<"U+10ED", "U+1CAD">>, <<"U+10EE", "U+1CAE">>, <<"U+10EF", "U+1CAF">>,
      <<"U+10F0", "U+1CB0">>, <<"U+10F1", "U+1CB1">>, <<"U+10F2", "U+1CB2">>,
      <<"U+10F3", "U+1CB3">>, <<"U+10F4", "U+1CB4">>, <<"U+10F5", "U+1CB5">>,
      <<"U+10F6", "U+1CB6">>, <<"U+10F7", "U+1CB7">>, <<"U+10F8", "U+1CB8">>,
      <<"U+10F9", "U+1CB9">>, <<"U+10FA", "U+1CBA">>, <<"U+10FD", "U+1CBD">>,
      <<"U+10FE", "U+1CBE">>, <<"U+10FF", "U+1CBF">>, <<"U+13F8", "U+13F0">>,
      <<"U+13F9", "U+13F1">>, <<"U+13FA", "U+13F2">>, <<"U+13FB", "U+13F3">>,
      <<"U+13FC", "U+13F4">>, <<"U+13FD", "U+13F5">>, <<"U+1D79", "U+A77D">>,
      <<"U+1D7D", "U+2C63">>, <<"U+1D8E", "U+A7C6">>, <<"U+1E01", "U+1E00">>,
      <<"U+1E03", "U+1E02">>, <<"U+1E05", "U+1E04">>, <<"U+1E07", "U+1E06">>,
      <<"U+1E09", "U+1E08">>, <<"U+1E0B", "U+1E0A">>, <<"U+1E0D", "U+1E0C">>,
      <<"U+1E0F", "U+1E0E">>, <<"U+1E11", "U+1E10">>, <<"U+1E13", "U+1E12">>,
      <<"U+1E15", "U+1E14">>, <<"U+1E17", "U+1E16">>, <<"U+1E19", "U+1E18">>,
      <<"U+1E1B", "U+1E1A">>, <<"U+1E1D", "U+1E1C">>, <<"U+1E1F", "U+1E1E">>,
      <<"U+1E21", "U+1E20">>, <<"U+1E23", "U+1E22">>, <<"U+1E25", "U+1E24">>,
      <<"U+1E27", "U+1E26">>, <<"U+1E29", "U+1E28">>, <<"U+1E2B", "U+1E2A">>,
      <<"U+1E2D", "U+1E2C">>, <<"U+1E2F", "U+1E2E">>, <<"U+1E31", "U+1E30">>,
      <<"U+1E33", "U+1E32">>, <<"U+1E35", "U+1E34">>, <<"U+1E37", "U+1E36">>,
      <<"U+1E39", "U+1E38">>, <<"U+1E3B", "U+1E3A">>, <<"U+1E3D", "U+1E3C">>,
      <<"U+1E3F", "U+1E3E">>, <<"U+1E41", "U+1E40">>, <<"U+1E43", "U+1E42">>,
      <<"U+1E45", "U+1E44">>, <<"U+1E47", "U+1E46">>, <<"U+1E49", "U+1E48">>,
      <<"U+1E4B", "U+1E4A">>, <<"U+1E4D", "U+1E4C">>, <<"U+1E4F", "U+1E4E">>,
      <<"U+1E51", "U+1E50">>, <<"U+1E53", "U+1E52">>, <<"U+1E55", "U+1E54">>,
      <<"U+1E57", "U+1E56">>, <<"U+1E59", "U+1E58">>, <<"U+1E5B", "U+1E5A">>,
      <<"U+1E5D", "U+1E5C">>, <<"U+1E5F", "U+1E5E">>, <<"U+1E61", "U+1E60">>,
      <<"U+1E63", "U+1E62">>, <<"U+1E65", "U+1E64">>, <<"U+1E67", "U+1E66">>,
      <<"U+1E69", "U+1E68">>, <<"U+1E6B", "U+1E6A">>, <<"U+1E6D", "U+1E6C">>,
      <<"U+1E6F", "U+1E6E">>, <<"U+1E71", "U+1E70">>, <<"U+1E73", "U+1E72">>,
      <<"U+1E75", "U+1E74">>, <<"U+1E77", "U+1E76">>, <<"U+1E79", "U+1E78">>,
      <<"U+1E7B", "U+1E7A">>, <<"U+1E7D", "U+1E7C">>, <<"U+1E7F", "U+1E7E">>,
      <<"U+1E81", "U+1E80">>, <<"U+1E83", "U+1E82">>, <<"U+1E85", "U+1E84">>,
      <<"U+1E87", "U+1E86">>, <<"U+1E89", "U+1E88">>, <<"U+1E8B", "U+1E8A">>,
      <<"U+1E8D", "U+1E8C">>, <<"U+1E8F", "U+1E8E">>, <<"U+1E91", "U+1E90">>,
      <<"U+1E93", "U+1E92">>, <<"U+1E95", "U+1E94">>, <<"U+1EA1", "U+1EA0">>,
      <<"U+1EA3", "U+1EA2">>, <<"U+1EA5", "U+1EA4">>, <<"U+1EA7", "U+1EA6">>,
      <<"U+1EA9", "U+1EA8">>, <<"U+1EAB", "U+1EAA">>, <<"U+1EAD", "U+1EAC">>,
      <<"U+1EAF", "U+1EAE">>, <<"U+1EB1", "U+1EB0">>, <<"U+1EB3", "U+1EB2">>,
      <<"U+1EB5", "U+1EB4">>, <<"U+1EB7", "U+1EB6">>, <<"U+1EB9", "U+1EB8">>,
      <<"U+1EBB", "U+1EBA">>, <<"U+1EBD", "U+1EBC">>, <<"U+1EBF", "U+1EBE">>,
      <<"U+1EC1", "U+1EC0">>, <<"U+1EC3", "U+1EC2">>, <<"U+1EC5", "U+1EC4">>,
      <<"U+1EC7", "U+1EC6">>, <<"U+1EC9", "U+1EC8">>, <<"U+1ECB", "U+1ECA">>,
      <<"U+1ECD", "U+1ECC">>, <<"U+1ECF", "U+1ECE">>, <<"U+1ED1", "U+1ED0">>,
      <<"U+1ED3", "U+1ED2">>, <<"U+1ED5", "U+1ED4">>, <<"U+1ED7", "U+1ED6">>,
      <<"U+1ED9", "U+1ED8">>, <<"U+1EDB", "U+1EDA">>, <<"U+1EDD", "U+1EDC">>,
      <<"U+1EDF", "U+1EDE">>, <<"U+1EE1", "U+1EE0">>, <<"U+1EE3", "U+1EE2">>,
      <<"U+1EE5", "U+1EE4">>, <<"U+1EE7", "U+1EE6">>, <<"U+1EE9", "U+1EE8">>,
      <<"U+1EEB", "U+1EEA">>, <<"U+1EED", "U+1EEC">>, <<"U+1EEF", "U+1EEE">>,
      <<"U+1EF1", "U+1EF0">>, <<"U+1EF3", "U+1EF2">>, <<"U+1EF5", "U+1EF4">>,
      <<"U+1EF7", "U+1EF6">>, <<"U+1EF9", "U+1EF8">>, <<"U+1EFB", "U+1EFA">>,
      <<"U+1EFD", "U+1EFC">>, <<"U+1EFF", "U+1EFE">>, <<"U+1F00", "U+1F08">>,
      <<"U+1F01", "U+1F09">>, <<"U+1F02", "U+1F0A">>, <<"U+1F03", "U+1F0B">>,
      <<"U+1F04", "U+1F0C">>, <<"U+1F05", "U+1F0D">>, <<"U+1F06", "U+1F0E">>,
      <<"U+1F07", "U+1F0F">>, <<"U+1F10", "U+1F18">>, <<"U+1F11", "U+1F19">>,
      <<"U+1F12", "U+1F1A">>, <<"U+1F13", "U+1F1B">>, <<"U+1F14", "U+1F1C">>,
      <<"U+1F15", "U+1F1D">>, <<"U+1F20", "U+1F28">>, <<"U+1F21", "U+1F29">>,
      <<"U+1F22", "U+1F2A">>, <<"U+1F23", "U+1F2B">>, <<"U+1F24", "U+1F2C">>,
      <<"U+1F25", "U+1F2D">>, <<"U+1F26", "U+1F2E">>, <<"U+1F27", "U+1F2F">>,
      <<"U+1F30", "U+1F38">>, <<"U+1F31", "U+1F39">>, <<"U+1F32", "U+1F3A">>,
      <<"U+1F33", "U+1F3B">>, <<"U+1F34", "U+1F3C">>, <<"U+1F35", "U+1F3D">>,
      <<"U+1F36", "U+1F3E">>, <<"U+1F37", "U+1F3F">>, <<"U+1F40", "U+1F48">>,
      <<"U+1F41", "U+1F49">>, <<"U+1F42", "U+1F4A">>, <<"U+1F43", "U+1F4B">>,
      <<"U+1F44", "U+1F4C">>, <<"U+1F45", "U+1F4D">>, <<"U+1F51", "U+1F59">>,
      <<"U+1F53", "U+1F5B">>, <<"U+1F55", "U+1F5D">>, <<"U+1F57", "U+1F5F">>,
      <<"U+1F60", "U+1F68">>, <<"U+1F61", "U+1F69">>, <<"U+1F62", "U+1F6A">>,
      <<"U+1F63", "U+1F6B">>, <<"U+1F64", "U+1F6C">>, <<"U+1F65", "U+1F6D">>,
      <<"U+1F66", "U+1F6E">>, <<"U+1F67", "U+1F6F">>, <<"U+1F70", "U+1FBA">>,
      <<"U+1F71", "U+1FBB">>, <<"U+1F72", "U+1FC8">>, <<"U+1F73", "U+1FC9">>,
      <<"U+1F74", "U+1FCA">>, <<"U+1F75", "U+1FCB">>, <<"U+1F76", "U+1FDA">>,
      <<"U+1F77", "U+1FDB">>, <<"U+1F78", "U+1FF8">>, <<"U+1F79", "U+1FF9">>,
      <<"U+1F7A", "U+1FEA">>, <<"U+1F7B", "U+1FEB">>, <<"U+1F7C", "U+1FFA">>,
      <<"U+1F7D", "U+1FFB">>, <<"U+1FB0", "U+1FB8">>, <<"U+1FB1", "U+1FB9">>,
      <<"U+1FD0", "U+1FD8">>, <<"U+1FD1", "U+1FD9">>, <<"U+1FE0", "U+1FE8">>,
      <<"U+1FE1", "U+1FE9">>, <<"U+1FE5", "U+1FEC">>, <<"U+214E", "U+2132">>,
      <<"U+2170", "U+2160">>, <<"U+2171", "U+2161">>, <<"U+2172", "U+2162">>,
      <<"U+2173", "U+2163">>, <<"U+2174", "U+2164">>, <<"U+2175", "U+2165">>,
      <<"U+2176", "U+2166">>, <<"U+2177", "U+2167">>, <<"U+2178", "U+2168">>,
      <<"U+2179", "U+2169">>, <<"U+217A", "U+216A">>, <<"U+217B", "U+216B">>,
      <<"U+217C", "U+216C">>, <<"U+217D", "U+216D">>, <<"U+217E", "U+216E">>,
      <<"U+217F", "U+216F">>, <<"U+2184", "U+2183">>, <<"U+24D0", "U+24B6">>,
      <<"U+24D1", "U+24B7">>, <<"U+24D2", "U+24B8">>, <<"U+24D3", "U+24B9">>,
      <<"U+24D4", "U+24BA">>, <<"U+24D5", "U+24BB">>, <<"U+24D6", "U+24BC">>,
      <<"U+24D7", "U+24BD">>, <<"U+24D8", "U+24BE">>, <<"U+24D9", "U+24BF">>,
      <<"U+24DA", "U+24C0">>, <<"U+24DB", "U+24C1">>, <<"U+24DC", "U+24C2">>,
      <<"U+24DD", "U+24C3">>, <<"U+24DE", "U+24C4">>, <<"U+24DF", "U+24C5">>,
      <<"U+24E0", "U+24C6">>, <<"U+24E1", "U+24C7">>, <<"U+24E2", "U+24C8">>,
      <<"U+24E3", "U+24C9">>, <<"U+24E4", "U+24CA">>, <<"U+24E5", "U+24CB">>,
      <<"U+24E6", "U+24CC">>, <<"U+24E7", "U+24CD">>, <<"U+24E8", "U+24CE">>,
      <<"U+24E9", "U+24CF">>, <<"U+2C30", "U+2C00">>, <<"U+2C31", "U+2C01">>,
      <<"U+2C32", "U+2C02">>, <<"U+2C33", "U+2C03">>, <<"U+2C34", "U+2C04">>,
      <<"U+2C35", "U+2C05">>, <<"U+2C36", "U+2C06">>, <<"U+2C37", "U+2C07">>,
      <<"U+2C38", "U+2C08">>, <<"U+2C39", "U+2C09">>, <<"U+2C3A", "U+2C0A">>,
      <<"U+2C3B", "U+2C0B">>, <<"U+2C3C", "U+2C0C">>, <<"U+2C3D", "U+2C0D">>,
      <<"U+2C3E", "U+2C0E">>, <<"U+2C3F", "U+2C0F">>, <<"U+2C40", "U+2C10">>,
      <<"U+2C41", "U+2C11">>, <<"U+2C42", "U+2C12">>, <<"U+2C43", "U+2C13">>,
      <<"U+2C44", "U+2C14">>, <<"U+2C45", "U+2C15">>, <<"U+2C46", "U+2C16">>,
      <<"U+2C47", "U+2C17">>, <<"U+2C48", "U+2C18">>, <<"U+2C49", "U+2C19">>,
      <<"U+2C4A", "U+2C1A">>, <<"U+2C4B", "U+2C1B">>, <<"U+2C4C", "U+2C1C">>,
      <<"U+2C4D", "U+2C1D">>, <<"U+2C4E", "U+2C1E">>, <<"U+2C4F", "U+2C1F">>,
      <<"U+2C50", "U+2C20">>, <<"U+2C51", "U+2C21">>, <<"U+2C52", "U+2C22">>,
      <<"U+2C53", "U+2C23">>, <<"U+2C54", "U+2C24">>, <<"U+2C55", "U+2C25">>,
      <<"U+2C56", "U+2C26">>, <<"U+2C57", "U+2C27">>, <<"U+2C58", "U+2C28">>,
      <<"U+2C59", "U+2C29">>, <<"U+2C5A", "U+2C2A">>, <<"U+2C5B", "U+2C2B">>,
      <<"U+2C5C", "U+2C2C">>, <<"U+2C5D", "U+2C2D">>, <<"U+2C5E", "U+2C2E">>,
      <<"U+2C5F", "U+2C2F">>, <<"U+2C61", "U+2C60">>, <<"U+2C65", "U+023A">>,
      <<"U+2C66", "U+023E">>, <<"U+2C68", "U+2C67">>, <<"U+2C6A", "U+2C69">>,
      <<"U+2C6C", "U+2C6B">>, <<"U+2C73", "U+2C72">>, <<"U+2C76", "U+2C75">>,
      <<"U+2C81", "U+2C80">>, <<"U+2C83", "U+2C82">>, <<"U+2C85", "U+2C84">>,
      <<"U+2C87", "U+2C86">>, <<"U+2C89", "U+2C88">>, <<"U+2C8B", "U+2C8A">>,
      <<"U+2C8D", "U+2C8C">>, <<"U+2C8F", "U+2C8E">>, <<"U+2C91", "U+2C90">>,
      <<"U+2C93", "U+2C92">>, <<"U+2C95", "U+2C94">>, <<"U+2C97", "U+2C96">>,
      <<"U+2C99", "U+2C98">>, <<"U+2C9B", "U+2C9A">>, <<"U+2C9D", "U+2C9C">>,
      <<"U+2C9F", "U+2C9E">>, <<"U+2CA1", "U+2CA0">>, <<"U+2CA3", "U+2CA2">>,
      <<"U+2CA5", "U+2CA4">>, <<"U+2CA7", "U+2CA6">>, <<"U+2CA9", "U+2CA8">>,
      <<"U+2CAB", "U+2CAA">>, <<"U+2CAD", "U+2CAC">>, <<"U+2CAF", "U+2CAE">>,
      <<"U+2CB1", "U+2CB0">>, <<"U+2CB3", "U+2CB2">>, <<"U+2CB5", "U+2CB4">>,
      <<"U+2CB7", "U+2CB6">>, <<"U+2CB9", "U+2CB8">>, <<"U+2CBB", "U+2CBA">>,
      <<"U+2CBD", "U+2CBC">>, <<"U+2CBF", "U+2CBE">>, <<"U+2CC1", "U+2CC0">>,
      <<"U+2CC3", "U+2CC2">>, <<"U+2CC5", "U+2CC4">>, <<"U+2CC7", "U+2CC6">>,
      <<"U+2CC9", "U+2CC8">>, <<"U+2CCB", "U+2CCA">>, <<"U+2CCD", "U+2CCC">>,
      <<"U+2CCF", "U+2CCE">>, <<"U+2CD1", "U+2CD0">>, <<"U+2CD3", "U+2CD2">>,
      <<"U+2CD5", "U+2CD4">>, <<"U+2CD7", "U+2CD6">>, <<"U+2CD9", "U+2CD8">>,
      <<"U+2CDB", "U+2CDA">>, <<"U+2CDD", "U+2CDC">>, <<"U+2CDF", "U+2CDE">>,
      <<"U+2CE1", "U+2CE0">>, <<"U+2CE3", "U+2CE2">>, <<"U+2CEC", "U+2CEB">>,
      <<"U+2CEE", "U+2CED">>, <<"U+2CF3", "U+2CF2">>, <<"U+2D00", "U+10A0">>,
      <<"U+2D01", "U+10A1">>, <<"U+2D02", "U+10A2">>, <<"U+2D03", "U+10A3">>,
      <<"U+2D04", "U+10A4">>, <<"U+2D05", "U+10A5">>, <<"U+2D06", "U+10A6">>,
      <<"U+2D07", "U+10A7">>, <<"U+2D08", "U+10A8">>, <<"U+2D09", "U+10A9">>,
      <<"U+2D0A", "U+10AA">>, <<"U+2D0B", "U+10AB">>, <<"U+2D0C", "U+10AC">>,
      <<"U+2D0D", "U+10AD">>, <<"U+2D0E", "U+10AE">>, <<"U+2D0F", "U+10AF">>,
      <<"U+2D10", "U+10B0">>, <<"U+2D11", "U+10B1">>, <<"U+2D12", "U+10B2">>,
      <<"U+2D13", "U+10B3">>, <<"U+2D14", "U+10B4">>, <<"U+2D15", "U+10B5">>,
      <<"U+2D16", "U+10B6">>, <<"U+2D17", "U+10B7">>, <<"U+2D18", "U+10B8">>,
      <<"U+2D19", "U+10B9">>, <<"U+2D1A", "U+10BA">>, <<"U+2D1B", "U+10BB">>,
      <<"U+2D1C", "U+10BC">>, <<"U+2D1D", "U+10BD">>, <<"U+2D1E", "U+10BE">>,
      <<"U+2D1F", "U+10BF">>, <<"U+2D20", "U+10C0">>, <<"U+2D21", "U+10C1">>,
      <<"U+2D22", "U+10C2">>, <<"U+2D23", "U+10C3">>, <<"U+2D24", "U+10C4">>,
      <<"U+2D25", "U+10C5">>, <<"U+2D27", "U+10C7">>, <<"U+2D2D", "U+10CD">>,
      <<"U+A641", "U+A640">>, <<"U+A643", "U+A642">>, <<"U+A645", "U+A644">>,
      <<"U+A647", "U+A646">>, <<"U+A649", "U+A648">>, <<"U+A64B", "U+A64A">>,
      <<"U+A64D", "U+A64C">>, <<"U+A64F", "U+A64E">>, <<"U+A651", "U+A650">>,
      <<"U+A653", "U+A652">>, <<"U+A655", "U+A654">>, <<"U+A657", "U+A656">>,
      <<"U+A659", "U+A658">>, <<"U+A65B", "U+A65A">>, <<"U+A65D", "U+A65C">>,
      <<"U+A65F", "U+A65E">>, <<"U+A661", "U+A660">>, <<"U+A663", "U+A662">>,
      <<"U+A665", "U+A664">>, <<"U+A667", "U+A666">>, <<"U+A669", "U+A668">>,
      <<"U+A66B", "U+A66A">>, <<"U+A66D", "U+A66C">>, <<"U+A681", "U+A680">>,
      <<"U+A683", "U+A682">>, <<"U+A685", "U+A684">>, <<"U+A687", "U+A686">>,
      <<"U+A689", "U+A688">>, <<"U+A68B", "U+A68A">>, <<"U+A68D", "U+A68C">>,
      <<"U+A68F", "U+A68E">>, <<"U+A691", "U+A690">>, <<"U+A693", "U+A692">>,
      <<"U+A695", "U+A694">>, <<"U+A697", "U+A696">>, <<"U+A699", "U+A698">>,
      <<"U+A69B", "U+A69A">>, <<"U+A723", "U+A722">>, <<"U+A725", "U+A724">>,
      <<"U+A727", "U+A726">>, <<"U+A729", "U+A728">>, <<"U+A72B", "U+A72A">>,
      <<"U+A72D", "U+A72C">>, <<"U+A72F", "U+A72E">>, <<"U+A733", "U+A732">>,
      <<"U+A735", "U+A734">>, <<"U+A737", "U+A736">>, <<"U+A739", "U+A738">>,
      <<"U+A73B", "U+A73A">>, <<"U+A73D", "U+A73C">>, <<"U+A73F", "U+A73E">>,
      <<"U+A741", "U+A740">>, <<"U+A743", "U+A742">>, <<"U+A745", "U+A744">>,
      <<"U+A747", "U+A746">>, <<"U+A749", "U+A748">>, <<"U+A74B", "U+A74A">>,
      <<"U+A74D", "U+A74C">>, <<"U+A74F", "U+A74E">>, <<"U+A751", "U+A750">>,
      <<"U+A753", "U+A752">>, <<"U+A755", "U+A754">>, <<"U+A757", "U+A756">>,
      <<"U+A759", "U+A758">>, <<"U+A75B", "U+A75A">>, <<"U+A75D", "U+A75C">>,
      <<"U+A75F", "U+A75E">>, <<"U+A761", "U+A760">>, <<"U+A763", "U+A762">>,
      <<"U+A765", "U+A764">>, <<"U+A767", "U+A766">>, <<"U+A769", "U+A768">>,
      <<"U+A76B", "U+A76A">>, <<"U+A76D", "U+A76C">>, <<"U+A76F", "U+A76E">>,
      <<"U+A77A", "U+A779">>, <<"U+A77C", "U+A77B">>, <<"U+A77F", "U+A77E">>,
      <<"U+A781", "U+A780">>, <<"U+A783", "U+A782">>, <<"U+A785", "U+A784">>,
      <<"U+A787", "U+A786">>, <<"U+A78C", "U+A78B">>, <<"U+A791", "U+A790">>,
      <<"U+A793", "U+A792">>, <<"U+A794", "U+A7C4">>, <<"U+A797", "U+A796">>,
      <<"U+A799", "U+A798">>, <<"U+A79B", "U+A79A">>, <<"U+A79D", "U+A79C">>,
      <<"U+A79F", "U+A79E">>, <<"U+A7A1", "U+A7A0">>, <<"U+A7A3", "U+A7A2">>,
      <<"U+A7A5", "U+A7A4">>, <<"U+A7A7", "U+A7A6">>, <<"U+A7A9", "U+A7A8">>,
      <<"U+A7B5", "U+A7B4">>, <<"U+A7B7", "U+A7B6">>, <<"U+A7B9", "U+A7B8">>,
      <<"U+A7BB", "U+A7BA">>, <<"U+A7BD", "U+A7BC">>, <<"U+A7BF", "U+A7BE">>,
      <<"U+A7C1", "U+A7C0">>, <<"U+A7C3", "U+A7C2">>, <<"U+A7C8", "U+A7C7">>,
      <<"U+A7CA", "U+A7C9">>, <<"U+A7D1", "U+A7D0">>, <<"U+A7D7", "U+A7D6">>,
      <<"U+A7D9", "U+A7D8">>, <<"U+A7F6", "U+A7F5">>, <<"U+AB53", "U+A7B3">>,
      <<"U+AB70", "U+13A0">>, <<"U+AB71", "U+13A1">>, <<"U+AB72", "U+13A2">>,
      <<"U+AB73", "U+13A3">>, <<"U+AB74", "U+13A4">>, <<"U+AB75", "U+13A5">>,
      <<"U+AB76", "U+13A6">>, <<"U+AB77", "U+13A7">>, <<"U+AB78", "U+13A8">>,
      <<"U+AB79", "U+13A9">>, <<"U+AB7A", "U+13AA">>, <<"U+AB7B", "U+13AB">>,
      <<"U+AB7C", "U+13AC">>, <<"U+AB7D", "U+13AD">>, <<"U+AB7E", "U+13AE">>,
      <<"U+AB7F", "U+13AF">>, <<"U+AB80", "U+13B0">>, <<"U+AB81", "U+13B1">>,
      <<"U+AB82", "U+13B2">>, <<"U+AB83", "U+13B3">>, <<"U+AB84", "U+13B4">>,
      <<"U+AB85", "U+13B5">>, <<"U+AB86", "U+13B6">>, <<"U+AB87", "U+13B7">>,
      <<"U+AB88", "U+13B8">>, <<"U+AB89", "U+13B9">>, <<"U+AB8A", "U+13BA">>,
      <<"U+AB8B", "U+13BB">>, <<"U+AB8C", "U+13BC">>, <<"U+AB8D", "U+13BD">>,
      <<"U+AB8E", "U+13BE">>, <<"U+AB8F", "U+13BF">>, <<"U+AB90", "U+13C0">>,
      <<"U+AB91", "U+13C1">>, <<"U+AB92", "U+13C2">>, <<"U+AB93", "U+13C3">>,
      <<"U+AB94", "U+13C4">>, <<"U+AB95", "U+13C5">>, <<"U+AB96", "U+13C6">>,
      <<"U+AB97", "U+13C7">>, <<"U+AB98", "U+13C8">>, <<"U+AB99", "U+13C9">>,
      <<"U+AB9A", "U+13CA">>, <<"U+AB9B", "U+13CB">>, <<"U+AB9C", "U+13CC">>,
      <<"U+AB9D", "U+13CD">>, <<"U+AB9E", "U+13CE">>, <<"U+AB9F", "U+13CF">>,
      <<"U+ABA0", "U+13D0">>, <<"U+ABA1", "U+13D1">>, <<"U+ABA2", "U+13D2">>,
      <<"U+ABA3", "U+13D3">>, <<"U+ABA4", "U+13D4">>, <<"U+ABA5", "U+13D5">>,
      <<"U+ABA6", "U+13D6">>, <<"U+ABA7", "U+13D7">>, <<"U+ABA8", "U+13D8">>,
      <<"U+ABA9", "U+13D9">>, <<"U+ABAA", "U+13DA">>, <<"U+ABAB", "U+13DB">>,
      <<"U+ABAC", "U+13DC">>, <<"U+ABAD", "U+13DD">>, <<"U+ABAE", "U+13DE">>,
      <<"U+ABAF", "U+13DF">>, <<"U+ABB0", "U+13E0">>, <<"U+ABB1", "U+13E1">>,
      <<"U+ABB2", "U+13E2">>, <<"U+ABB3", "U+13E3">>, <<"U+ABB4", "U+13E4">>,
      <<"U+ABB5", "U+13E5">>, <<"U+ABB6", "U+13E6">>, <<"U+ABB7", "U+13E7">>,
      <<"U+ABB8", "U+13E8">>, <<"U+ABB9", "U+13E9">>, <<"U+ABBA", "U+13EA">>,
      <<"U+ABBB", "U+13EB">>, <<"U+ABBC", "U+13EC">>, <<"U+ABBD", "U+13ED">>,
      <<"U+ABBE", "U+13EE">>, <<"U+ABBF", "U+13EF">>, <<"U+FF41", "U+FF21">>,
      <<"U+FF42", "U+FF22">>, <<"U+FF43", "U+FF23">>, <<"U+FF44", "U+FF24">>,
      <<"U+FF45", "U+FF25">>, <<"U+FF46", "U+FF26">>, <<"U+FF47", "U+FF27">>,
      <<"U+FF48", "U+FF28">>, <<"U+FF49", "U+FF29">>, <<"U+FF4A", "U+FF2A">>,
      <<"U+FF4B", "U+FF2B">>, <<"U+FF4C", "U+FF2C">>, <<"U+FF4D", "U+FF2D">>,
      <<"U+FF4E", "U+FF2E">>, <<"U+FF4F", "U+FF2F">>, <<"U+FF50", "U+FF30">>,
      <<"U+FF51", "U+FF31">>, <<"U+FF52", "U+FF32">>, <<"U+FF53", "U+FF33">>,
      <<"U+FF54", "U+FF34">>, <<"U+FF55", "U+FF35">>, <<"U+FF56", "U+FF36">>,
      <<"U+FF57", "U+FF37">>, <<"U+FF58", "U+FF38">>, <<"U+FF59", "U+FF39">>,
      <<"U+FF5A", "U+FF3A">>, <<"U+10428", "U+10400">>,
      <<"U+10429", "U+10401">>, <<"U+1042A", "U+10402">>,
      <<"U+1042B", "U+10403">>, <<"U+1042C", "U+10404">>,
      <<"U+1042D", "U+10405">>, <<"U+1042E", "U+10406">>,
      <<"U+1042F", "U+10407">>, <<"U+10430", "U+10408">>,
      <<"U+10431", "U+10409">>, <<"U+10432", "U+1040A">>,
      <<"U+10433", "U+1040B">>, <<"U+10434", "U+1040C">>,
      <<"U+10435", "U+1040D">>, <<"U+10436", "U+1040E">>,
      <<"U+10437", "U+1040F">>, <<"U+10438", "U+10410">>,
      <<"U+10439", "U+10411">>, <<"U+1043A", "U+10412">>,
      <<"U+1043B", "U+10413">>, <<"U+1043C", "U+10414">>,
      <<"U+1043D", "U+10415">>, <<"U+1043E", "U+10416">>,
      <<"U+1043F", "U+10417">>, <<"U+10440", "U+10418">>,
      <<"U+10441", "U+10419">>, <<"U+10442", "U+1041A">>,
      <<"U+10443", "U+1041B">>, <<"U+10444", "U+1041C">>,
      <<"U+10445", "U+1041D">>, <<"U+10446", "U+1041E">>,
      <<"U+10447", "U+1041F">>, <<"U+10448", "U+10420">>,
      <<"U+10449", "U+10421">>, <<"U+1044A", "U+10422">>,
      <<"U+1044B", "U+10423">>, <<"U+1044C", "U+10424">>,
      <<"U+1044D", "U+10425">>, <<"U+1044E", "U+10426">>,
      <<"U+1044F", "U+10427">>, <<"U+104D8", "U+104B0">>,
      <<"U+104D9", "U+104B1">>, <<"U+104DA", "U+104B2">>,
      <<"U+104DB", "U+104B3">>, <<"U+104DC", "U+104B4">>,
      <<"U+104DD", "U+104B5">>, <<"U+104DE", "U+104B6">>,
      <<"U+104DF", "U+104B7">>, <<"U+104E0", "U+104B8">>,
      <<"U+104E1", "U+104B9">>, <<"U+104E2", "U+104BA">>,
      <<"U+104E3", "U+104BB">>, <<"U+104E4", "U+104BC">>,
      <<"U+104E5", "U+104BD">>, <<"U+104E6", "U+104BE">>,
      <<"U+104E7", "U+104BF">>, <<"U+104E8", "U+104C0">>,
      <<"U+104E9", "U+104C1">>, <<"U+104EA", "U+104C2">>,
      <<"U+104EB", "U+104C3">>, <<"U+104EC", "U+104C4">>,
      <<"U+104ED", "U+104C5">>, <<"U+104EE", "U+104C6">>,
      <<"U+104EF", "U+104C7">>, <<"U+104F0", "U+104C8">>,
      <<"U+104F1", "U+104C9">>, <<"U+104F2", "U+104CA">>,
      <<"U+104F3", "U+104CB">>, <<"U+104F4", "U+104CC">>,
      <<"U+104F5", "U+104CD">>, <<"U+104F6", "U+104CE">>,
      <<"U+104F7", "U+104CF">>, <<"U+104F8", "U+104D0">>,
      <<"U+104F9", "U+104D1">>, <<"U+104FA", "U+104D2">>,
      <<"U+104FB", "U+104D3">>, <<"U+10597", "U+10570">>,
      <<"U+10598", "U+10571">>, <<"U+10599", "U+10572">>,
      <<"U+1059A", "U+10573">>, <<"U+1059B", "U+10574">>,
      <<"U+1059C", "U+10575">>, <<"U+1059D", "U+10576">>,
      <<"U+1059E", "U+10577">>, <<"U+1059F", "U+10578">>,
      <<"U+105A0", "U+10579">>, <<"U+105A1", "U+1057A">>,
      <<"U+105A3", "U+1057C">>, <<"U+105A4", "U+1057D">>,
      <<"U+105A5", "U+1057E">>, <<"U+105A6", "U+1057F">>,
      <<"U+105A7", "U+10580">>, <<"U+105A8", "U+10581">>,
      <<"U+105A9", "U+10582">>, <<"U+105AA", "U+10583">>,
      <<"U+105AB", "U+10584">>, <<"U+105AC", "U+10585">>,
      <<"U+105AD", "U+10586">>, <<"U+105AE", "U+10587">>,
      <<"U+105AF", "U+10588">>, <<"U+105B0", "U+10589">>,
      <<"U+105B1", "U+1058A">>, <<"U+105B3", "U+1058C">>,
      <<"U+105B4", "U+1058D">>, <<"U+105B5", "U+1058E">>,
      <<"U+105B6", "U+1058F">>, <<"U+105B7", "U+10590">>,
      <<"U+105B8", "U+10591">>, <<"U+105B9", "U+10592">>,
      <<"U+105BB", "U+10594">>, <<"U+105BC", "U+10595">>,
      <<"U+10CC0", "U+10C80">>, <<"U+10CC1", "U+10C81">>,
      <<"U+10CC2", "U+10C82">>, <<"U+10CC3", "U+10C83">>,
      <<"U+10CC4", "U+10C84">>, <<"U+10CC5", "U+10C85">>,
      <<"U+10CC6", "U+10C86">>, <<"U+10CC7", "U+10C87">>,
      <<"U+10CC8", "U+10C88">>, <<"U+10CC9", "U+10C89">>,
      <<"U+10CCA", "U+10C8A">>, <<"U+10CCB", "U+10C8B">>,
      <<"U+10CCC", "U+10C8C">>, <<"U+10CCD", "U+10C8D">>,
      <<"U+10CCE", "U+10C8E">>, <<"U+10CCF", "U+10C8F">>,
      <<"U+10CD0", "U+10C90">>, <<"U+10CD1", "U+10C91">>,
      <<"U+10CD2", "U+10C92">>, <<"U+10CD3", "U+10C93">>,
      <<"U+10CD4", "U+10C94">>, <<"U+10CD5", "U+10C95">>,
      <<"U+10CD6", "U+10C96">>, <<"U+10CD7", "U+10C97">>,
      <<"U+10CD8", "U+10C98">>, <<"U+10CD9", "U+10C99">>,
      <<"U+10CDA", "U+10C9A">>, <<"U+10CDB", "U+10C9B">>,
      <<"U+10CDC", "U+10C9C">>, <<"U+10CDD", "U+10C9D">>,
      <<"U+10CDE", "U+10C9E">>, <<"U+10CDF", "U+10C9F">>,
      <<"U+10CE0", "U+10CA0">>, <<"U+10CE1", "U+10CA1">>,
      <<"U+10CE2", "U+10CA2">>, <<"U+10CE3", "U+10CA3">>,
      <<"U+10CE4", "U+10CA4">>, <<"U+10CE5", "U+10CA5">>,
      <<"U+10CE6", "U+10CA6">>, <<"U+10CE7", "U+10CA7">>,
      <<"U+10CE8", "U+10CA8">>, <<"U+10CE9", "U+10CA9">>,
      <<"U+10CEA", "U+10CAA">>, <<"U+10CEB", "U+10CAB">>,
      <<"U+10CEC", "U+10CAC">>, <<"U+10CED", "U+10CAD">>,
      <<"U+10CEE", "U+10CAE">>, <<"U+10CEF", "U+10CAF">>,
      <<"U+10CF0", "U+10CB0">>, <<"U+10CF1", "U+10CB1">>,
      <<"U+10CF2", "U+10CB2">>, <<"U+118C0", "U+118A0">>,
      <<"U+118C1", "U+118A1">>, <<"U+118C2", "U+118A2">>,
      <<"U+118C3", "U+118A3">>, <<"U+118C4", "U+118A4">>,
      <<"U+118C5", "U+118A5">>, <<"U+118C6", "U+118A6">>,
      <<"U+118C7", "U+118A7">>, <<"U+118C8", "U+118A8">>,
      <<"U+118C9", "U+118A9">>, <<"U+118CA", "U+118AA">>,
      <<"U+118CB", "U+118AB">>, <<"U+118CC", "U+118AC">>,
      <<"U+118CD", "U+118AD">>, <<"U+118CE", "U+118AE">>,
      <<"U+118CF", "U+118AF">>, <<"U+118D0", "U+118B0">>,
      <<"U+118D1", "U+118B1">>, <<"U+118D2", "U+118B2">>,
      <<"U+118D3", "U+118B3">>, <<"U+118D4", "U+118B4">>,
      <<"U+118D5", "U+118B5">>, <<"U+118D6", "U+118B6">>,
      <<"U+118D7", "U+118B7">>, <<"U+118D8", "U+118B8">>,
      <<"U+118D9", "U+118B9">>, <<"U+118DA", "U+118BA">>,
      <<"U+118DB", "U+118BB">>, <<"U+118DC", "U+118BC">>,
      <<"U+118DD", "U+118BD">>, <<"U+118DE", "U+118BE">>,
      <<"U+118DF", "U+118BF">>, <<"U+16E60", "U+16E40">>,
      <<"U+16E61", "U+16E41">>, <<"U+16E62", "U+16E42">>,
      <<"U+16E63", "U+16E43">>, <<"U+16E64", "U+16E44">>,
      <<"U+16E65", "U+16E45">>, <<"U+16E66", "U+16E46">>,
      <<"U+16E67", "U+16E47">>, <<"U+16E68", "U+16E48">>,
      <<"U+16E69", "U+16E49">>, <<"U+16E6A", "U+16E4A">>,
      <<"U+16E6B", "U+16E4B">>, <<"U+16E6C", "U+16E4C">>,
      <<"U+16E6D", "U+16E4D">>, <<"U+16E6E", "U+16E4E">>,
      <<"U+16E6F", "U+16E4F">>, <<"U+16E70", "U+16E50">>,
      <<"U+16E71", "U+16E51">>, <<"U+16E72", "U+16E52">>,
      <<"U+16E73", "U+16E53">>, <<"U+16E74", "U+16E54">>,
      <<"U+16E75", "U+16E55">>, <<"U+16E76", "U+16E56">>,
      <<"U+16E77", "U+16E57">>, <<"U+16E78", "U+16E58">>,
      <<"U+16E79", "U+16E59">>, <<"U+16E7A", "U+16E5A">>,
      <<"U+16E7B", "U+16E5B">>, <<"U+16E7C", "U+16E5C">>,
      <<"U+16E7D", "U+16E5D">>, <<"U+16E7E", "U+16E5E">>,
      <<"U+16E7F", "U+16E5F">>, <<"U+1E922", "U+1E900">>,
      <<"U+1E923", "U+1E901">>, <<"U+1E924", "U+1E902">>,
      <<"U+1E925", "U+1E903">>, <<"U+1E926", "U+1E904">>,
      <<"U+1E927", "U+1E905">>, <<"U+1E928", "U+1E906">>,
      <<"U+1E929", "U+1E907">>, <<"U+1E92A", "U+1E908">>,
      <<"U+1E92B", "U+1E909">>, <<"U+1E92C", "U+1E90A">>,
      <<"U+1E92D", "U+1E90B">>, <<"U+1E92E", "U+1E90C">>,
      <<"U+1E92F", "U+1E90D">>, <<"U+1E930", "U+1E90E">>,
      <<"U+1E931", "U+1E90F">>, <<"U+1E932", "U+1E910">>,
      <<"U+1E933", "U+1E911">>, <<"U+1E934", "U+1E912">>,
      <<"U+1E935", "U+1E913">>, <<"U+1E936", "U+1E914">>,
      <<"U+1E937", "U+1E915">>, <<"U+1E938", "U+1E916">>,
      <<"U+1E939", "U+1E917">>, <<"U+1E93A", "U+1E918">>,
      <<"U+1E93B", "U+1E919">>, <<"U+1E93C", "U+1E91A">>,
      <<"U+1E93D", "U+1E91B">>, <<"U+1E93E", "U+1E91C">>,
      <<"U+1E93F", "U+1E91D">>, <<"U+1E940", "U+1E91E">>,
      <<"U+1E941", "U+1E91F">>, <<"U+1E942", "U+1E920">>,
      <<"U+1E943", "U+1E921">>
    >>

\* <<c, c.upper()>> for every other character that str.upper() changes.
UpperExceptions ==
    <<
      <<"µ", <<"U+039C">>>>, <<"ß", <<"S", "S">>>>, <<"U+0131", <<"I">>>>,
      <<"U+0149", <<"U+02BC", "N">>>>, <<"U+017F", <<"S">>>>,
      <<"U+01C5", <<"U+01C4">>>>, <<"U+01C8", <<"U+01C7">>>>,
      <<"U+01CB", <<"U+01CA">>>>, <<"U+01F0", <<"J", "U+030C">>>>,
      <<"U+01F2", <<"U+01F1">>>>, <<"U+0345", <<"U+0399">>>>,
      <<"U+0390", <<"U+0399", "U+0308", "U+0301">>>>,
      <<"U+03B0", <<"U+03A5", "U+0308", "U+0301">>>>,
      <<"U+03C2", <<"U+03A3">>>>, <<"U+03D0", <<"U+0392">>>>,
      <<"U+03D1", <<"U+0398">>>>, <<"U+03D5", <<"U+03A6">>>>,
      <<"U+03D6", <<"U+03A0">>>>, <<"U+03F0", <<"U+039A">>>>,
      <<"U+03F1", <<"U+03A1">>>>, <<"U+03F5", <<"U+0395">>>>,
      <<"U+0587", <<"U+0535", "U+0552">>>>, <<"U+1C80", <<"U+0412">>>>,
      <<"U+1C81", <<"U+0414">>>>, <<"U+1C82", <<"U+041E">>>>,
      <<"U+1C83", <<"U+0421">>>>, <<"U+1C84", <<"U+0422">>>>,
      <<"U+1C85", <<"U+0422">>>>, <<"U+1C86", <<"U+042A">>>>,
      <<"U+1C87", <<"U+0462">>>>, <<"U+1C88", <<"U+A64A">>>>,
      <<"U+1E96", <<"H", "U+0331">>>>, <<"U+1E97", <<"T", "U+0308">>>>,
      <<"U+1E98", <<"W", "U+030A">>>>, <<"U+1E99", <<"Y", "U+030A">>>>,
      <<"U+1E9A", <<"A", "U+02BE">>>>, <<"U+1E9B", <<"U+1E60">>>>,
      <<"U+1F50", <<"U+03A5", "U+0313">>>>,
      <<"U+1F52", <<"U+03A5", "U+0313", "U+0300">>>>,
      <<"U+1F54", <<"U+03A5", "U+0313", "U+0301">>>>,
      <<"U+1F56", <<"U+03A5", "U+0313", "U+0342">>>>,
      <<"U+1F80", <<"U+1F08", "U+0399">>>>,
      <<"U+1F81", <<"U+1F09", "U+0399">>>>,
      <<"U+1F82", <<"U+1F0A", "U+0399">>>>,
      <<"U+1F83", <<"U+1F0B", "U+0399">>>>,
      <<"U+1F84", <<"U+1F0C", "U+0399">>>>,
      <<"U+1F85", <<"U+1F0D", "U+0399">>>>,
      <<"U+1F86", <<"U+1F0E", "U+0399">>>>,
      <<"U+1F87", <<"U+1F0F", "U+0399">>>>,
      <<"U+1F88", <<"U+1F08", "U+0399">>>>,
      <<"U+1F89", <<"U+1F09", "U+0399">>>>,
      <<"U+1F8A", <<"U+1F0A", "U+0399">>>>,
      <<"U+1F8B", <<"U+1F0B", "U+0399">>>>,
      <<"U+1F8C", <<"U+1F0C", "U+0399">>>>,
      <<"U+1F8D", <<"U+1F0D", "U+0399">>>>,
      <<"U+1F8E", <<"U+1F0E", "U+0399">>>>,
      <<"U+1F8F", <<"U+1F0F", "U+0399">>>>,
      <<"U+1F90", <<"U+1F28", "U+0399">>>>,
      <<"U+1F91", <<"U+1F29", "U+0399">>>>,
      <<"U+1F92", <<"U+1F2A", "U+0399">>>>,
      <<"U+1F93", <<"U+1F2B", "U+0399">>>>,
      <<"U+1F94", <<"U+1F2C", "U+0399">>>>,
      <<"U+1F95", <<"U+1F2D", "U+0399">>>>,
      <<"U+1F96", <<"U+1F2E", "U+0399">>>>,
      <<"U+1F97", <<"U+1F2F", "U+0399">>>>,
      <<"U+1F98", <<"U+1F28", "U+0399">>>>,
      <<"U+1F99", <<"U+1F29", "U+0399">>>>,
      <<"U+1F9A", <<"U+1F2A", "U+0399">>>>,
      <<"U+1F9B", <<"U+1F2B", "U+0399">>>>,
      <<"U+1F9C", <<"U+1F2C", "U+0399">>>>,
      <<"U+1F9D", <<"U+1F2D", "U+0399">>>>,
      <<"U+1F9E", <<"U+1F2E", "U+0399">>>>,
      <<"U+1F9F", <<"U+1F2F", "U+0399">>>>,
      <<"U+1FA0", <<"U+1F68", "U+0399">>>>,
      <<"U+1FA1", <<"U+1F69", "U+0399">>>>,
      <<"U+1FA2", <<"U+1F6A", "U+0399">>>>,
      <<"U+1FA3", <<"U+1F6B", "U+0399">>>>,
      <<"U+1FA4", <<"U+1F6C", "U+0399">>>>,
      <<"U+1FA5", <<"U+1F6D", "U+0399">>>>,
      <<"U+1FA6", <<"U+1F6E", "U+0399">>>>,
      <<"U+1FA7", <<"U+1F6F", "U+0399">>>>,
      <<"U+1FA8", <<"U+1F68", "U+0399">>>>,
      <<"U+1FA9", <<"U+1F69", "U+0399">>>>,
      <<"U+1FAA", <<"U+1F6A", "U+0399">>>>,
      <<"U+1FAB", <<"U+1F6B", "U+0399">>>>,
      <<"U+1FAC", <<"U+1F6C", "U+0399">>>>,
      <<"U+1FAD", <<"U+1F6D", "U+0399">>>>,
      <<"U+1FAE", <<"U+1F6E", "U+0399">>>>,
      <<"U+1FAF", <<"U+1F6F", "U+0399">>>>,
      <<"U+1FB2", <<"U+1FBA", "U+0399">>>>,
      <<"U+1FB3", <<"U+0391", "U+0399">>>>,
      <<"U+1FB4", <<"U+0386", "U+0399">>>>,
      <<"U+1FB6", <<"U+0391", "U+0342">>>>,
      <<"U+1FB7", <<"U+0391", "U+0342", "U+0399">>>>,
      <<"U+1FBC", <<"U+0391", "U+0399">>>>, <<"U+1FBE", <<"U+0399">>>>,
      <<"U+1FC2", <<"U+1FCA", "U+0399">>>>,
      <<"U+1FC3", <<"U+0397", "U+0399">>>>,
      <<"U+1FC4", <<"U+0389", "U+0399">>>>,
      <<"U+1FC6", <<"U+0397", "U+0342">>>>,
      <<"U+1FC7", <<"U+0397", "U+0342", "U+0399">>>>,
      <<"U+1FCC", <<"U+0397", "U+0399">>>>,
      <<"U+1FD2", <<"U+0399", "U+0308", "U+0300">>>>,
      <<"U+1FD3", <<"U+0399", "U+0308", "U+0301">>>>,
      <<"U+1FD6", <<"U+0399", "U+0342">>>>,
      <<"U+1FD7", <<"U+0399", "U+0308", "U+0342">>>>,
      <<"U+1FE2", <<"U+03A5", "U+0308", "U+0300">>>>,
      <<"U+1FE3", <<"U+03A5", "U+0308", "U+0301">>>>,
      <<"U+1FE4", <<"U+03A1", "U+0313">>>>,
      <<"U+1FE6", <<"U+03A5", "U+0342">>>>,
      <<"U+1FE7", <<"U+03A5", "U+0308", "U+0342">>>>,
      <<"U+1FF2", <<"U+1FFA", "U+0399">>>>,
      <<"U+1FF3", <<"U+03A9", "U+0399">>>>,
      <<"U+1FF4", <<"U+038F", "U+0399">>>>,
      <<"U+1FF6", <<"U+03A9", "U+0342">>>>,
      <<"U+1FF7", <<"U+03A9", "U+0342", "U+0399">>>>,
      <<"U+1FFC", <<"U+03A9", "U+0399">>>>, <<"U+FB00", <<"F", "F">>>>,
      <<"U+FB01", <<"F", "I">>>>, <<"U+FB02", <<"F", "L">>>>,
      <<"U+FB03", <<"F", "F", "I">>>>, <<"U+FB04", <<"F", "F", "L">>>>,
      <<"U+FB05", <<"S", "T">>>>, <<"U+FB06", <<"S", "T">>>>,
      <<"U+FB13", <<"U+0544", "U+0546">>>>,
      <<"U+FB14", <<"U+0544", "U+0535">>>>,
      <<"U+FB15", <<"U+0544", "U+053B">>>>,
      <<"U+FB16", <<"U+054E", "U+0546">>>>,
      <<"U+FB17", <<"U+0544", "U+053D">>>>
    >>

\* <<c, c.lower()>> for every other character that str.lower() changes.
LowerExceptions ==
    <<
      <<"U+0130", <<"i", "U+0307">>>>, <<"U+01C5", <<"U+01C6">>>>,
      <<"U+01C8", <<"U+01C9">>>>, <<"U+01CB", <<"U+01CC">>>>,
      <<"U+01F2", <<"U+01F3">>>>, <<"U+03F4", <<"U+03B8">>>>,
      <<"U+1E9E", <<"ß">>>>, <<"U+1F88", <<"U+1F80">>>>,
      <<"U+1F89", <<"U+1F81">>>>, <<"U+1F8A", <<"U+1F82">>>>,
      <<"U+1F8B", <<"U+1F83">>>>, <<"U+1F8C", <<"U+1F84">>>>,
      <<"U+1F8D", <<"U+1F85">>>>, <<"U+1F8E", <<"U+1F86">>>>,
      <<"U+1F8F", <<"U+1F87">>>>, <<"U+1F98", <<"U+1F90">>>>,
      <<"U+1F99", <<"U+1F91">>>>, <<"U+1F9A", <<"U+1F92">>>>,
      <<"U+1F9B", <<"U+1F93">>>>, <<"U+1F9C", <<"U+1F94">>>>,
      <<"U+1F9D", <<"U+1F95">>>>, <<"U+1F9E", <<"U+1F96">>>>,
      <<"U+1F9F", <<"U+1F97">>>>, <<"U+1FA8", <<"U+1FA0">>>>,
      <<"U+1FA9", <<"U+1FA1">>>>, <<"U+1FAA", <<"U+1FA2">>>>,
      <<"U+1FAB", <<"U+1FA3">>>>, <<"U+1FAC", <<"U+1FA4">>>>,
      <<"U+1FAD", <<"U+1FA5">>>>, <<"U+1FAE", <<"U+1FA6">>>>,
      <<"U+1FAF", <<"U+1FA7">>>>, <<"U+1FBC", <<"U+1FB3">>>>,
      <<"U+1FCC", <<"U+1FC3">>>>, <<"U+1FFC", <<"U+1FF3">>>>,
      <<"U+2126", <<"U+03C9">>>>, <<"U+212A", <<"k">>>>, <<"U+212B", <<"å">>>>
    >>

\* The function with the <<argument, value>> pairs table[lo..hi].
RECURSIVE TableFunction(_, _, _)
TableFunction(table, lo, hi) ==
    IF lo = hi THEN table[lo][1] :> table[lo][2]
    ELSE LET mid == (lo + hi) \div 2
         IN  TableFunction(table, lo, mid) @@ TableFunction(table, mid + 1, hi)

\* c.upper() for every character c that str.upper() changes.
UpperMap ==
    LET table == [k \in DOMAIN CasePairs |->
                      <<CasePairs[k][1], <<CasePairs[k][2]>>>>]
                 \o UpperExceptions
    IN  TableFunction(table, 1, Len(table))

\* c.lower() for every character c that str.lower() changes.
LowerMap ==
    LET table == [k \in DOMAIN CasePairs |->
                      <<CasePairs[k][2], <<CasePairs[k][1]>>>>]
                 \o LowerExceptions
    IN  TableFunction(table, 1, Len(table))

\* str.upper() on a one-character string: the sequence of its characters.
UpperChar(c) == IF c \in DOMAIN UpperMap THEN UpperMap[c] ELSE <<c>>

\* str.lower() on a one-character string.
LowerChar(c) == IF c \in DOMAIN LowerMap THEN LowerMap[c] ELSE <<c>>

\* str.upper(): the upper-case forms of the characters, one after the other.
RECURSIVE StrUpper(_)
StrUpper(str) ==
    IF str = <<>> THEN <<>>
    ELSE UpperChar(Head(str)) \o StrUpper(Tail(str))

\* The entries of COMPETITOR_MAP in source order: key, competitors.
CompetitorEntries ==
    <<
      <<<<"A", "A", "P", "L">>, <<"MSFT", "GOOG", "SAMSUNG", "META">>>>,
      <<<<"M", "S", "F", "T">>, <<"AAPL", "GOOG", "AMZN", "CRM">>>>,
      <<<<"G", "O", "O", "G">>, <<"MSFT", "META", "AAPL", "AMZN">>>>,
      <<<<"G", "O", "O", "G", "L">>, <<"MSFT", "META", "AAPL", "AMZN">>>>,
      <<<<"A", "M", "Z", "N">>, <<"MSFT", "GOOG", "WMT", "SHOP">>>>,
      <<<<"M", "E", "T", "A">>, <<"GOOG", "SNAP", "PINS", "TIKTOK">>>>,
      <<<<"N", "V", "D", "A">>, <<"AMD", "INTC", "AVGO", "QCOM">>>>,
      <<<<"T", "S", "L", "A">>, <<"RIVN", "GM", "F", "BYD", "LCID">>>>,
      <<<<"A", "M", "D">>, <<"NVDA", "INTC", "QCOM", "AVGO">>>>,
      <<<<"I", "N", "T", "C">>, <<"AMD", "NVDA", "TSM", "QCOM">>>>,
      <<<<"A", "V", "G", "O">>, <<"QCOM", "TXN", "NVDA", "MRVL">>>>,
      <<<<"T", "S", "M">>, <<"INTC", "SAMSUNG", "GFS", "UMC">>>>,
      <<<<"J", "P", "M">>, <<"BAC", "GS", "MS", "C">>>>,
      <<<<"G", "S">>, <<"MS", "JPM", "BAC", "UBS">>>>,
      <<<<"V">>, <<"MA", "PYPL", "SQ", "ADYEN">>>>,
      <<<<"M", "A">>, <<"V", "PYPL", "SQ", "ADYEN">>>>,
      <<<<"U", "N", "H">>, <<"CVS", "CI", "HUM", "ELV">>>>,
      <<<<"J", "N", "J">>, <<"PFE", "MRK", "ABT", "LLY">>>>,
      <<<<"L", "L", "Y">>, <<"NVO", "MRK", "PFE", "ABBV">>>>,
      <<<<"X", "O", "M">>, <<"CVX", "COP", "BP", "SHEL">>>>,
      <<<<"C", "V", "X">>, <<"XOM", "COP", "BP", "TTE">>>>,
      <<<<"W", "M", "T">>, <<"COST", "TGT", "AMZN", "KR">>>>,
      <<<<"C", "O", "S", "T">>, <<"WMT", "TGT", "BJ", "KR">>>>,
      <<<<"D", "I", "S">>, <<"NFLX", "CMCSA", "WBD", "PARA">>>>,
      <<<<"N", "F", "L", "X">>, <<"DIS", "WBD", "PARA", "CMCSA">>>>
    >>

\* COMPETITOR_MAP edited so that every entry also lists two index funds.
COMPETITOR_MAP_Extended ==
    [key \in {CompetitorEntries[k][1] : k \in DOMAIN CompetitorEntries} |->
        Append((CompetitorEntries[CHOOSE k \in DOMAIN CompetitorEntries :
                                      CompetitorEntries[k][1] = key])[2], "SPY")
        \o <<"QQQ">>]

\* COMPETITOR_MAP as a dict.
COMPETITOR_MAP ==
    [key \in {CompetitorEntries[k][1] : k \in DOMAIN CompetitorEntries} |->
        (CompetitorEntries[CHOOSE k \in DOMAIN CompetitorEntries :
                               CompetitorEntries[k][1] = key])[2]]

\* A buggy lookup that forgets to normalise the case of its argument.
get_competitors_exact(str) ==
    IF str \in DOMAIN COMPETITOR_MAP THEN COMPETITOR_MAP[str] ELSE <<>>

\* get_competitors (lines 43-45): COMPETITOR_MAP.get(symbol.upper(), []).
get_competitors(str) ==
    IF StrUpper(str) \in DOMAIN COMPETITOR_MAP
    THEN COMPETITOR_MAP[StrUpper(str)]
    ELSE <<>>

\* Every way of writing str with each of its characters in upper or in
\* lower case.
RECURSIVE CaseVariants(_)
CaseVariants(str) ==
    IF str = <<>> THEN {<<>>}
    ELSE {c \o rest : c \in {UpperChar(Head(str)), LowerChar(Head(str))},
                      rest \in CaseVariants(Tail(str))}

\* Tickers that are not keys of COMPETITOR_MAP.
UnknownTickers ==
    {<<"Z", "Z", "Z">>, <<"S", "A", "M", "S", "U", "N", "G">>, <<"B", "R", "K", ".", "B">>,
     <<"A", "A", "P">>, <<>>}

\* Strings with letters outside a-z: dis with a dotless i, tsla with a long
\* s, nflx and cost with a ligature, all of which str.upper() turns into a
\* key of the map; g and sharp s, cafe with an acute accent, m with the
\* Kelvin sign and DIS with a dotted capital I, which it does not.
UnicodeTickers ==
    {<<"d", "U+0131", "s">>, <<"t", "U+017F", "l", "a">>, <<"n", "U+FB02", "x">>,
     <<"c", "o", "U+FB06">>, <<"g", "ß">>, <<"c", "a", "f", "é">>,
     <<"m", "U+212A">>, <<"D", "U+0130", "S">>}

\* The arguments get_competitors is called with: every key of the map, every
\* unknown ticker and every string above, in every casing.
LookupArguments ==
    UNION {CaseVariants(key) :
             key \in DOMAIN COMPETITOR_MAP \cup UnknownTickers \cup UnicodeTickers}

\* No call of get_competitors is under way.
NoLookup ==
    [pc |-> "none", symbol |-> <<>>, competitors |-> <<>>, again |-> FALSE,
     first_symbol |-> <<>>, first_competitors |-> <<>>]

(***************************************************************************)
(* The aggregator fetch_all_market_data as a state machine.                *)
(***************************************************************************)

VARIABLES
    symbols,       \* the argument of the call
    newsapi_key,   \* settings.newsapi_key
    provider,      \* what each provider answered (a stable provider answers
                   \* the same on every later request)
    pc,            \* where the call stands: "idle", "created", "gathering",
                   \* "returned", "raised", "aborted", "cancelling" or
                   \* "cancelled"
    tasks,         \* the awaitables handed to gather, in argument order:
                   \* [st, call, res], st being "created" (wrapped in a
                   \* task whose first step has not run), "queued" (the
                   \* call waits in the executor's queue), "running" (a
                   \* news request is under way, a blocking call is on a
                   \* worker thread), "resuming" (the call has ended on its
                   \* thread, the event loop has not resumed the coroutine
                   \* yet), "returned", "raised", "exited", "cancelled",
                   \* "orphaned" or "discarded"; call the outcome of the
                   \* threaded call or the answer to the news request,
                   \* res the outcome of the task
    fetched_at,    \* the local of line 171
    snapshot,      \* the returned dict
    clock,         \* datetime.now()
    calls,         \* number of calls started
    first,         \* the snapshot the first call returned
    lookup         \* a call of get_competitors: its argument and its result

vars ==
    <<symbols, newsapi_key, provider, pc, tasks, fetched_at, snapshot, clock,
      calls, first, lookup>>

NoResult == [tag |-> "none"]

NoSnapshot == [absent |-> TRUE]

\* return_exceptions of line 181.
return_exceptions == TRUE

n == Len(symbols)

\* The position of the awaitables in gather's argument list (lines 178-180).
IsQuoteTask(i) == i \in 1..n

IsNewsTask(i) == i \in (n + 1)..(2 * n)

IsMacroTask(i) == i = 2 * n + 1

\* The quote coroutines and the macro coroutine hand a blocking function to
\* asyncio.to_thread (lines 78, 117); fetch_news awaits the HTTP client on
\* the event loop and needs no worker thread.
IsBlockingTask(i) == IsQuoteTask(i) \/ IsMacroTask(i)

\* A task that is done with a value or with an exception gather hands over.
Terminal(t) == t.st \in {"returned", "raised"}

\* The task t once its coroutine has ended with res: the coroutine returned
\* a value, raised, or re-raised an exit request into the event loop.
Finished(t, res) ==
    [t EXCEPT !.st = CASE res.tag = "exc" -> "raised"
                       [] res.tag = "exit" -> "exited"
                       [] OTHER -> "returned",
              !.res = res]

\* The first step the event loop runs of task i: a blocking coroutine
\* submits its call to the executor (lines 78, 117) and suspends; a news
\* coroutine sends its request (line 148) and suspends or, without an API
\* key, returns at line 132 before it awaits anything.
FirstStep(ts, i) ==
    IF IsBlockingTask(i) THEN [ts[i] EXCEPT !.st = "queued"]
    ELSE IF newsapi_key = ""
    THEN Finished(ts[i], FetchNews(symbols[i - n], newsapi_key,
                                   NewsResponse(Unset)))
    ELSE [ts[i] EXCEPT !.st = "running"]

\* Every task has taken its first step.  gather queues the first steps in
\* argument order in one go, so the event loop runs them all before it
\* resumes any coroutine with the outcome of its call or of its request.
AllStarted(ts) == \A i \in DOMAIN ts : ts[i].st # "created"

\* all_results of lines 177-182: the value or the exception of each task.
AllResults(ts) == [i \in DOMAIN ts |-> ts[i].res]

\* When the await of line 177 resumes: with return_exceptions every task is
\* in a terminal state; without it the first exception resumes it at once.
GatherSettled(ts) ==
    IF return_exceptions
    THEN \A i \in DOMAIN ts : Terminal(ts[i])
    ELSE \/ \A i \in DOMAIN ts : Terminal(ts[i])
         \/ \E i \in DOMAIN ts : ts[i].st = "raised"

\* Whether the await of line 177 raises instead of yielding all_results.
GatherRaises(ts) ==
    ~return_exceptions /\ \E i \in DOMAIN ts : ts[i].st = "raised"

\* The index the loops of lines 190 and 195 leave in the dict for key sym:
\* the last position of sym in symbols.
LastIndex(syms, sym) ==
    CHOOSE i \in 1..Len(syms) :
        syms[i] = sym /\ \A j \in (i + 1)..Len(syms) : syms[j] # sym

SymbolSet(syms) == {syms[i] : i \in 1..Len(syms)}

\* A buggy placeholder substitution that drops the failed symbol.
StocksDropsFailed(syms, stock_results) ==
    [sym \in {s \in SymbolSet(syms) :
                stock_results[LastIndex(syms, s)].tag = "dict"} |->
        stock_results[LastIndex(syms, sym)].val]

\* A buggy placeholder substitution that leaves the error out.
StocksHidesError(syms, stock_results) ==
    [sym \in SymbolSet(syms) |->
        LET r == stock_results[LastIndex(syms, sym)]
        IN  IF r.tag = "dict" THEN r.val
            ELSE [symbol |-> sym]]

\* stocks of lines 189-192.
Stocks(syms, stock_results) ==
    [sym \in SymbolSet(syms) |->
        LET r == stock_results[LastIndex(syms, sym)]
        IN  IF r.tag = "dict" THEN r.val
            ELSE [symbol |-> sym, error |-> r.val]]

\* news of lines 194-197.
News(syms, news_results) ==
    [sym \in SymbolSet(syms) |->
        LET r == news_results[LastIndex(syms, sym)]
        IN  IF r.tag = "list" THEN r.val ELSE <<>>]

\* macro of line 199.
Macro(macro_result) ==
    IF macro_result.tag = "dict" THEN macro_result.val
    ELSE [error |-> macro_result.val]

\* A buggy slicing that reads the news results from the quote slots.
AssembleMisaligned(syms, all_results, at) ==
    LET k == Len(syms)
        stock_results == SubSeq(all_results, 1, k)
        news_results == SubSeq(all_results, 1, k)
        macro_result == all_results[2 * k + 1]
    IN  [stocks |-> Stocks(syms, stock_results),
         macro |-> Macro(macro_result),
         news |-> News(syms, news_results),
         fetched_at |-> at]

\* Lines 184-206 on gather's result list.
Assemble(syms, all_results, at) ==
    LET k == Len(syms)
        stock_results == SubSeq(all_results, 1, k)
        news_results == SubSeq(all_results, k + 1, 2 * k)
        macro_result == all_results[2 * k + 1]
    IN  [stocks |-> Stocks(syms, stock_results),
         macro |-> Macro(macro_result),
         news |-> News(syms, news_results),
         fetched_at |-> at]

\* The worker threads that are executing a call: a thread whose awaiting
\* task was cancelled is still executing it; a thread whose call has ended
\* is free again, whether or not the awaiting coroutine has been resumed.
Busy(ts) ==
    Cardinality({i \in DOMAIN ts :
                   IsBlockingTask(i) /\ ts[i].st \in {"running", "orphaned"}})

\* A pool of a single worker thread.
FreeWorkerSingleThread(ts) == Busy(ts) < 1

\* A worker thread is idle or may still be spawned.
FreeWorker(ts) == Busy(ts) < PoolWorkers

\* What does not change while a call of fetch_all_market_data is under way.
Setting == <<symbols, newsapi_key, lookup>>

NoProvider ==
    [quote |-> [s \in SymUniverse |-> Unset],
     news |-> [s \in SymUniverse |-> Unset],
     macro |-> UnsetMacro]

Init ==
    /\ symbols \in UniqueSeqs(SymUniverse, MaxSyms) \ {<<>>}
    /\ newsapi_key \in {"", "key"}
    /\ provider = NoProvider
    /\ pc = "idle"
    /\ tasks = <<>>
    /\ fetched_at = 0
    /\ snapshot = NoSnapshot
    /\ clock = 0
    /\ calls = 0
    /\ first = NoSnapshot
    /\ lookup = NoLookup

\* Lines 171-175: take the batch timestamp and create the 2N+1 coroutines.
CreateCoroutines ==
    /\ pc = "idle"
    /\ fetched_at' = clock
    /\ tasks' = [i \in 1..(2 * n + 1) |->
                   [st |-> "created", call |-> NoResult, res |-> NoResult]]
    /\ pc' = "created"
    /\ calls' = calls + 1
    /\ UNCHANGED <<Setting, provider, snapshot, clock, first>>

\* Line 177: gather wraps every awaitable in a task, which queues its first
\* step in the event loop, and the caller suspends.
Gather ==
    /\ pc = "created"
    /\ pc' = "gathering"
    /\ UNCHANGED <<Setting, provider, tasks, fetched_at, snapshot, clock, calls,
                   first>>

\* The event loop runs the first step of task i, the tasks taking their
\* first steps in argument order.
StartTask(i) ==
    /\ pc = "gathering"
    /\ tasks[i].st = "created"
    /\ \A j \in 1..(i - 1) : tasks[j].st # "created"
    /\ tasks' = [tasks EXCEPT ![i] = FirstStep(tasks, i)]
    /\ UNCHANGED <<Setting, provider, pc, fetched_at, snapshot, clock, calls,
                   first>>

\* The worker threads run beside the event loop: they take and end calls
\* while the call awaits gather and also after an exit request has stopped
\* the event loop.
ThreadsRun == pc \in {"gathering", "aborted"}

\* A worker thread takes the oldest call waiting in the executor's queue.
StartThread(i) ==
    /\ ThreadsRun
    /\ tasks[i].st = "queued"
    /\ \A j \in 1..(i - 1) : tasks[j].st # "queued"
    /\ FreeWorker(tasks)
    /\ tasks' = [tasks EXCEPT ![i].st = "running"]
    /\ UNCHANGED <<Setting, provider, pc, fetched_at, snapshot, clock, calls,
                   first>>

\* Where the call stands once a task has ended with res: an exit request
\* leaves the task and stops the event loop, so that the call never resumes
\* and the tasks still pending take no further step in it.
AfterTask(res) == IF res.tag = "exit" THEN "aborted" ELSE pc

\* _fetch_stock_data_sync(symbols[i]) ends on its worker thread, the
\* provider answering with one of cases; the worker is free from now on.
EndQuoteCallOf(i, cases) ==
    /\ ThreadsRun
    /\ IsQuoteTask(i)
    /\ tasks[i].st = "running"
    /\ \E case \in cases :
         /\ provider.quote[symbols[i]] \in {Unset, case}
         /\ provider' = [provider EXCEPT !.quote[symbols[i]] = case]
         /\ tasks' = [tasks EXCEPT
                        ![i].st = "resuming",
                        ![i].call = QuoteCall(symbols[i], QuoteResponse(case),
                                              clock)]
    /\ UNCHANGED <<Setting, pc, fetched_at, snapshot, clock, calls, first>>

EndQuoteCall(i) == EndQuoteCallOf(i, QuoteCases)

\* The event loop resumes fetch_stock_data(symbols[i]) at line 78 with the
\* outcome of its call, and the coroutine runs to its end.  A call whose
\* error was lost never resumes its coroutine.
ResumeQuote(i) ==
    /\ pc = "gathering"
    /\ AllStarted(tasks)
    /\ IsQuoteTask(i)
    /\ tasks[i].st = "resuming"
    /\ to_thread(tasks[i].call).tag # "lost"
    /\ LET res == FetchStockData(symbols[i], tasks[i].call, clock)
       IN  /\ tasks' = [tasks EXCEPT ![i] = Finished(tasks[i], res)]
           /\ pc' = AfterTask(res)
    /\ UNCHANGED <<Setting, provider, fetched_at, snapshot, clock, calls, first>>

\* The provider answers the request of the news task of symbols[i - n] with
\* one of cases and the event loop resumes the coroutine at line 148: it
\* runs lines 149-150 (or meets the error) and suspends again where the
\* `async with` of line 147 closes the client.
EndNewsRequestOf(i, cases) ==
    /\ pc = "gathering"
    /\ AllStarted(tasks)
    /\ IsNewsTask(i)
    /\ tasks[i].st = "running"
    /\ tasks[i].call = NoResult
    /\ \E case \in cases :
         /\ provider.news[symbols[i - n]] \in {Unset, case}
         /\ provider' = [provider EXCEPT !.news[symbols[i - n]] = case]
         /\ tasks' = [tasks EXCEPT ![i].call = [tag |-> "response",
                                                val |-> case]]
    /\ UNCHANGED <<Setting, pc, fetched_at, snapshot, clock, calls, first>>

EndNewsRequest(i) == EndNewsRequestOf(i, NewsCases)

\* The client is closed: the event loop resumes fetch_news(symbols[i - n])
\* past the `async with` block and the coroutine runs to its end (lines
\* 152-164).
ResumeNews(i) ==
    /\ pc = "gathering"
    /\ IsNewsTask(i)
    /\ tasks[i].st = "running"
    /\ tasks[i].call # NoResult
    /\ LET res == FetchNews(symbols[i - n], newsapi_key,
                            NewsResponse(tasks[i].call.val))
       IN  /\ tasks' = [tasks EXCEPT ![i] = Finished(tasks[i], res)]
           /\ pc' = AfterTask(res)
    /\ UNCHANGED <<Setting, provider, fetched_at, snapshot, clock, calls, first>>

\* _fetch_macro_sync() ends on its worker thread, the provider answering
\* with one of cases; the worker is free from now on.
EndMacroCallOf(cases) ==
    /\ ThreadsRun
    /\ tasks[2 * n + 1].st = "running"
    /\ \E case \in cases :
         /\ provider.macro \in {UnsetMacro, case}
         /\ provider' = [provider EXCEPT !.macro = case]
         /\ tasks' = [tasks EXCEPT
                        ![2 * n + 1].st = "resuming",
                        ![2 * n + 1].call = MacroCall(MacroResponse(case))]
    /\ UNCHANGED <<Setting, pc, fetched_at, snapshot, clock, calls, first>>

EndMacroCall == EndMacroCallOf(MacroCases)

\* The event loop resumes fetch_macro_indicators() at line 117 with the
\* outcome of its call, and the coroutine runs to its end.
ResumeMacro ==
    /\ pc = "gathering"
    /\ AllStarted(tasks)
    /\ tasks[2 * n + 1].st = "resuming"
    /\ to_thread(tasks[2 * n + 1].call).tag # "lost"
    /\ LET res == FetchMacroIndicators(tasks[2 * n + 1].call, clock)
       IN  /\ tasks' = [tasks EXCEPT
                          ![2 * n + 1] = Finished(tasks[2 * n + 1], res)]
           /\ pc' = AfterTask(res)
    /\ UNCHANGED <<Setting, provider, fetched_at, snapshot, clock, calls, first>>

\* Lines 177-206: the await resumes and the snapshot is assembled and
\* returned, or the exception gather raised leaves the function.
Return ==
    /\ pc = "gathering"
    /\ GatherSettled(tasks)
    /\ IF GatherRaises(tasks)
       THEN pc' = "raised" /\ UNCHANGED snapshot
       ELSE /\ pc' = "returned"
            /\ snapshot' = Assemble(symbols, AllResults(tasks), fetched_at)
    /\ UNCHANGED <<Setting, provider, tasks, fetched_at, clock, calls, first>>

Next ==
    \/ CreateCoroutines
    \/ Gather
    \/ \E i \in 1..Len(tasks) : StartTask(i)
    \/ \E i \in 1..Len(tasks) : StartThread(i)
    \/ \E i \in 1..Len(tasks) : EndQuoteCall(i)
    \/ \E i \in 1..Len(tasks) : ResumeQuote(i)
    \/ \E i \in 1..Len(tasks) : EndNewsRequest(i)
    \/ \E i \in 1..Len(tasks) : ResumeNews(i)
    \/ EndMacroCall
    \/ ResumeMacro
    \/ Return

Spec == Init /\ [][Next]_vars

(***************************************************************************)
(* Two calls with the same symbol list against a stable provider: what a   *)
(* provider answered in the first call it answers again in the second.     *)
(***************************************************************************)

InitTwice ==
    /\ Init
    /\ Len(symbols) <= MaxSymsTwice

\* The caller keeps the first snapshot and, later, calls again with the same
\* symbol list.
CallAgain ==
    /\ pc = "returned"
    /\ calls = 1
    /\ first' = snapshot
    /\ snapshot' = NoSnapshot
    /\ tasks' = <<>>
    /\ clock' = clock + 1
    /\ pc' = "idle"
    /\ UNCHANGED <<Setting, provider, fetched_at, calls>>

NextTwice ==
    \/ CreateCoroutines
    \/ Gather
    \/ \E i \in 1..Len(tasks) : StartTask(i)
    \/ \E i \in 1..Len(tasks) : StartThread(i)
    \/ \E i \in 1..Len(tasks) : EndQuoteCallOf(i, StableQuoteCases)
    \/ \E i \in 1..Len(tasks) : ResumeQuote(i)
    \/ \E i \in 1..Len(tasks) : EndNewsRequestOf(i, StableNewsCases)
    \/ \E i \in 1..Len(tasks) : ResumeNews(i)
    \/ EndMacroCallOf(StableMacroCases)
    \/ ResumeMacro
    \/ Return
    \/ CallAgain

SpecTwice == InitTwice /\ [][NextTwice]_vars

(***************************************************************************)
(* get_competitors called on its own, then called again with the same      *)
(* ticker in another casing.                                               *)
(***************************************************************************)

Aggregator == <<symbols, newsapi_key, provider, pc, tasks, fetched_at, snapshot,
                clock, calls, first>>

InitCompetitors ==
    /\ symbols = <<>>
    /\ newsapi_key = ""
    /\ provider = NoProvider
    /\ pc = "none"
    /\ tasks = <<>>
    /\ fetched_at = 0
    /\ snapshot = NoSnapshot
    /\ clock = 0
    /\ calls = 0
    /\ first = NoSnapshot
    /\ \E str \in LookupArguments :
         lookup = [NoLookup EXCEPT !.pc = "called", !.symbol = str]

\* get_competitors(symbol) returns.
GetCompetitors ==
    /\ lookup.pc = "called"
    /\ lookup' = [lookup EXCEPT !.pc = "returned",
                                !.competitors = get_competitors(lookup.symbol)]
    /\ UNCHANGED Aggregator

\* The caller keeps the result and calls again with another casing of the
\* same ticker.
CallOtherCasing ==
    /\ lookup.pc = "returned"
    /\ ~lookup.again
    /\ \E str \in CaseVariants(lookup.symbol) :
         lookup' = [pc |-> "called", symbol |-> str, competitors |-> <<>>,
                    again |-> TRUE, first_symbol |-> lookup.symbol,
                    first_competitors |-> lookup.competitors]
    /\ UNCHANGED Aggregator

NextCompetitors == GetCompetitors \/ CallOtherCasing

SpecCompetitors == InitCompetitors /\ [][NextCompetitors]_vars

(***************************************************************************)
(* One symbol whose price and volume histories have any length up to       *)
(* MaxHistLen, the volume being the same every day (possibly zero).        *)
(***************************************************************************)

\* The histories the provider may hold for a symbol.
HistoryCases ==
    [hist3m : 0..MaxHistLen, hist1m : 0..MaxHistLen, volume : {0, 3}]

\* The provider's answer for a symbol with the histories of case: closes
\* 101, 102, ... and a constant daily volume.
HistoryResponse(case) ==
    [kind |-> "data",
     info |-> FullQuote.info,
     hist3m |-> History([i \in 1..case.hist3m |-> 100 + i]),
     hist1m |-> History([i \in 1..case.hist1m |-> case.volume])]

InitQuote ==
    /\ symbols \in {<<s>> : s \in SymUniverse}
    /\ newsapi_key = ""
    /\ \E case \in HistoryCases :
         provider = [quote |-> [s \in SymUniverse |->
                                  IF s = symbols[1] THEN case ELSE Unset],
                     news |-> [s \in SymUniverse |-> Unset],
                     macro |-> [kind |-> "labels", failing |-> {}]]
    /\ pc = "idle"
    /\ tasks = <<>>
    /\ fetched_at = 0
    /\ snapshot = NoSnapshot
    /\ clock = 0
    /\ calls = 0
    /\ first = NoSnapshot
    /\ lookup = NoLookup

\* _fetch_stock_data_sync(symbols[i]) ends on its worker thread with the
\* quote computed from the histories the provider holds for the symbol.
EndHistoryQuoteCall(i) ==
    /\ ThreadsRun
    /\ IsQuoteTask(i)
    /\ tasks[i].st = "running"
    /\ tasks' = [tasks EXCEPT
                   ![i].st = "resuming",
                   ![i].call = QuoteCall(symbols[i],
                                         HistoryResponse(provider.quote[symbols[i]]),
                                         clock)]
    /\ UNCHANGED <<Setting, provider, pc, fetched_at, snapshot, clock, calls,
                   first>>

NextQuote ==
    \/ CreateCoroutines
    \/ Gather
    \/ \E i \in 1..Len(tasks) : StartTask(i)
    \/ \E i \in 1..Len(tasks) : StartThread(i)
    \/ \E i \in 1..Len(tasks) : EndHistoryQuoteCall(i)
    \/ \E i \in 1..Len(tasks) : ResumeQuote(i)
    \/ EndMacroCall
    \/ ResumeMacro
    \/ Return

SpecQuote == InitQuote /\ [][NextQuote]_vars

(***************************************************************************)
(* The blocking calls on the worker pool.  No executor is configured, so   *)
(* asyncio.to_thread dispatches to the event loop's default executor: a    *)
(* call waits in its FIFO queue until one of its PoolWorkers threads is    *)
(* free, then runs on that thread.  One symbol's quote call is slow: it    *)
(* may take arbitrarily long, or never end.  The symbol list is a prefix   *)
(* of Portfolio of up to MaxPoolSyms symbols, long enough for the blocking *)
(* calls to outnumber the workers, and any symbol of it may be the slow    *)
(* one in a call without news requests; with news requests under way the   *)
(* list is shorter than MaxPoolSyms and the slow symbol is the first.      *)
(***************************************************************************)

Slow == "slow"

\* The slow symbol's quote task.
SlowTask == CHOOSE i \in 1..n : provider.quote[symbols[i]] = Slow

\* Every provider answers at once and without an error, but for the quote
\* of the symbol slow.
PresetProvider(syms, slow) ==
    [quote |-> [s \in SymUniverse \cup SymbolSet(syms) |->
                  IF s = slow THEN Slow
                  ELSE IF s \in SymbolSet(syms) THEN "full"
                  ELSE Unset],
     news |-> [s \in SymUniverse \cup SymbolSet(syms) |->
                 IF s \in SymbolSet(syms) THEN "articles" ELSE Unset],
     macro |-> [kind |-> "labels", failing |-> {}]]

InitPool ==
    /\ symbols \in {SubSeq(Portfolio, 1, k) : k \in 1..MaxPoolSyms}
    /\ newsapi_key \in {"", "key"}
    /\ newsapi_key = "key" => Len(symbols) < MaxPoolSyms
    /\ \E slow \in SymbolSet(symbols) :
         /\ newsapi_key = "key" => slow = symbols[1]
         /\ provider = PresetProvider(symbols, slow)
    /\ pc = "idle"
    /\ tasks = <<>>
    /\ fetched_at = 0
    /\ snapshot = NoSnapshot
    /\ clock = 0
    /\ calls = 0
    /\ first = NoSnapshot
    /\ lookup = NoLookup

\* The slow quote call ends at last; its worker is free from now on.
EndSlowCall(i) ==
    /\ ThreadsRun
    /\ IsQuoteTask(i)
    /\ tasks[i].st = "running"
    /\ provider.quote[symbols[i]] = Slow
    /\ tasks' = [tasks EXCEPT
                   ![i].st = "resuming",
                   ![i].call = QuoteCall(symbols[i], QuoteResponse("full"), clock)]
    /\ UNCHANGED <<Setting, provider, pc, fetched_at, snapshot, clock, calls,
                   first>>

\* Every step but the end of the slow call.
NextPoolPrompt == Next

NextPool ==
    \/ NextPoolPrompt
    \/ \E i \in 1..Len(tasks) : EndSlowCall(i)

\* The event loop and the worker threads keep taking steps; nothing makes
\* the slow call end.
SpecPool == InitPool /\ [][NextPool]_vars /\ WF_vars(NextPoolPrompt)

(***************************************************************************)
(* The caller cancels fetch_all_market_data while it awaits gather.        *)
(* task.cancel() only requests the cancellation: it cancels the future     *)
(* that every pending child awaits and returns.  In its next iteration the *)
(* event loop resumes each child with CancelledError, which `except        *)
(* Exception` lets through, and cancels the executor's future of a call    *)
(* that is still waiting in the queue.  Once every child is done gather's  *)
(* future fails with CancelledError and the await of line 177 raises it.   *)
(* The worker threads run all the while: a call may end, and the freed     *)
(* worker may take a waiting call, between the request and the moment the  *)
(* event loop gets to cancel that call.                                    *)
(***************************************************************************)

InitCancel ==
    /\ InitPool
    /\ Len(symbols) <= MaxSyms

\* A child that is still pending: waiting for its first step or for a
\* worker, running, or waiting to be resumed with the outcome of its call.
Pending(t) == t.st \in {"created", "queued", "running", "resuming"}

\* task.cancel() on the call, at any moment before line 177 has resumed,
\* even when every child is done already.
Cancel ==
    /\ pc = "gathering"
    /\ pc' = "cancelling"
    /\ UNCHANGED <<Setting, provider, tasks, fetched_at, snapshot, clock, calls,
                   first>>

\* A worker thread takes the oldest waiting call after the cancellation was
\* requested: the executor's future of the call is not cancelled yet.
StartUnawaited(i) ==
    /\ pc = "cancelling"
    /\ tasks[i].st = "queued"
    /\ \A j \in 1..(i - 1) : tasks[j].st # "queued"
    /\ FreeWorker(tasks)
    /\ tasks' = [tasks EXCEPT ![i].st = "running"]
    /\ UNCHANGED <<Setting, provider, pc, fetched_at, snapshot, clock, calls,
                   first>>

\* A worker thread ends its call after the cancellation was requested: the
\* future the task awaited is cancelled and the result is dropped.
FinishUnawaited(i) ==
    /\ pc = "cancelling"
    /\ IsBlockingTask(i)
    /\ tasks[i].st = "running"
    /\ tasks' = [tasks EXCEPT ![i].st = "discarded"]
    /\ UNCHANGED <<Setting, provider, pc, fetched_at, snapshot, clock, calls,
                   first>>

\* The event loop cancels child i.  A task that has not taken its first
\* step (it never submits its call), a task on the event loop, a call still
\* waiting in the executor's queue and a coroutine whose call has ended but
\* which has not been resumed are cancelled; a call that is running on a
\* worker thread cannot be interrupted and runs on.
Cancelled(ts, i) ==
    [ts EXCEPT ![i].st = IF IsBlockingTask(i) /\ ts[i].st = "running"
                         THEN "orphaned"
                         ELSE "cancelled"]

CancelChild(i) ==
    /\ pc = "cancelling"
    /\ Pending(tasks[i])
    /\ tasks' = Cancelled(tasks, i)
    /\ UNCHANGED <<Setting, provider, pc, fetched_at, snapshot, clock, calls,
                   first>>

\* Every child is done: CancelledError is raised at the await of line 177
\* and leaves the function.
RaiseCancelled ==
    /\ pc = "cancelling"
    /\ \A i \in DOMAIN tasks : ~Pending(tasks[i])
    /\ pc' = "cancelled"
    /\ UNCHANGED <<Setting, provider, tasks, fetched_at, snapshot, clock, calls,
                   first>>

\* The worker thread of a cancelled task ends its call; nobody reads the
\* result.
FinishOrphan(i) ==
    /\ pc \in {"cancelling", "cancelled"}
    /\ tasks[i].st = "orphaned"
    /\ tasks' = [tasks EXCEPT ![i].st = "discarded"]
    /\ UNCHANGED <<Setting, provider, pc, fetched_at, snapshot, clock, calls,
                   first>>

NextCancel ==
    \/ NextPool
    \/ Cancel
    \/ \E i \in 1..Len(tasks) : StartUnawaited(i)
    \/ \E i \in 1..Len(tasks) : FinishUnawaited(i)
    \/ \E i \in 1..Len(tasks) : CancelChild(i)
    \/ RaiseCancelled
    \/ \E i \in 1..Len(tasks) : FinishOrphan(i)

SpecCancel == InitCancel /\ [][NextCancel]_vars

(***************************************************************************)
(* Properties.                                                             *)
(***************************************************************************)

Returned == pc = "returned"

QuoteTaskOf(sym) == LastIndex(symbols, sym)

NewsTaskOf(sym) == n + LastIndex(symbols, sym)

MacroTask == 2 * n + 1

\* The dict d has an error entry (whatever its text, which is empty for an
\* error raised without a message).
ErrorSet(d) == "error" \in DOMAIN d

\* Every numeric field of a quote is absent or None.
NumericNull(q) == \A k \in NumericKeys : k \notin DOMAIN q \/ q[k] = None

\* What the quote fetch of sym alone yields for the provider's answer for
\* sym, as line 192 stores it.
ExpectedStock(sym) ==
    LET call == QuoteCall(sym, QuoteResponse(provider.quote[sym]), fetched_at)
        r == FetchStockData(sym, call, fetched_at)
    IN  IF r.tag = "dict" THEN r.val ELSE [symbol |-> sym, error |-> r.val]

\* What the news fetch of sym alone yields for the provider's answer for sym.
ExpectedNews(sym) ==
    LET r == FetchNews(sym, newsapi_key, NewsResponse(provider.news[sym]))
    IN  IF r.tag = "list" THEN r.val ELSE <<>>

\* C1: whatever the outcomes of the quote, news and macro operations, the
\* returned snapshot has `stocks` and `news` mappings whose key sets are
\* exactly the set of input symbols.
C1_KeysAreInputSymbols ==
    Returned =>
        /\ DOMAIN snapshot.stocks = SymbolSet(symbols)
        /\ DOMAIN snapshot.news = SymbolSet(symbols)

\* Two symbols, one of whose quote task raised unexpectedly while the other
\* returned a str in place of a dict, a news task raised and the other news
\* request was caught failing: the snapshot is returned.
C1_Witness ==
    /\ Returned
    /\ n = 2
    /\ \E i \in 1..n : tasks[i].st = "raised"
    /\ \E i \in 1..n : tasks[i].res.tag = "str"
    /\ \E i \in (n + 1)..(2 * n) : tasks[i].st = "raised"
    /\ \E i \in 1..n : provider.news[symbols[i]] = "bad_status"

\* Every operation that raised past its fetcher's own handling is replaced
\* by its placeholder in the snapshot: a quote with only symbol and error, an
\* empty news list, an error-only macro.
PlaceholdersSubstituted ==
    Returned =>
        /\ \A sym \in SymbolSet(symbols) :
            /\ tasks[QuoteTaskOf(sym)].st = "raised" =>
                 snapshot.stocks[sym] =
                     [symbol |-> sym, error |-> tasks[QuoteTaskOf(sym)].res.val]
            /\ tasks[NewsTaskOf(sym)].st = "raised" => snapshot.news[sym] = <<>>
        /\ tasks[MacroTask].st = "raised" =>
             snapshot.macro = [error |-> tasks[MacroTask].res.val]

\* The provider call of a task has ended, but its outcome never reaches the
\* coroutine: the task stays pending and the await of line 177 never resumes.
Lost(t) == t.st = "resuming" /\ to_thread(t.call).tag = "lost"

\* C2: whatever error an operation meets past its fetcher's own handling,
\* the call does not fail outright: it neither raises nor is left waiting
\* for ever, and the snapshot it returns carries the placeholder of every
\* operation that raised.  (A call torn down by SystemExit or
\* KeyboardInterrupt, pc = "aborted", is left aside here.)
C2_NeverFailsOutright ==
    /\ pc # "raised"
    /\ \A i \in DOMAIN tasks : ~Lost(tasks[i])
    /\ PlaceholdersSubstituted

\* A task that has come to its end.
Ended(t) == t.st \in {"returned", "raised", "exited"}

\* C3: the 2N+1 operations are issued together (all of them are handed to
\* gather in one go and no coroutine is resumed with the outcome of its call
\* before every one has taken its first step), the call ends only after
\* every one of them is in a terminal state, each one ends with the outcome
\* of its own fetch, whatever happened to the others, and no failure of one
\* operation stops the call while another operation has not come to its end.
C3_AllIssuedAllAwaited ==
    /\ pc = "gathering" =>
        /\ Len(tasks) = 2 * n + 1
        /\ \A i, j \in DOMAIN tasks :
            tasks[i].st = "created" /\ IsBlockingTask(j) => ~Ended(tasks[j])
    /\ pc \in {"returned", "raised"} =>
        /\ \A i \in DOMAIN tasks : Terminal(tasks[i])
        /\ \A i \in 1..n :
            /\ tasks[i].res =
                 FetchStockData(symbols[i],
                                QuoteCall(symbols[i],
                                          QuoteResponse(provider.quote[symbols[i]]),
                                          fetched_at),
                                fetched_at)
            /\ tasks[n + i].res =
                 FetchNews(symbols[i], newsapi_key,
                           NewsResponse(provider.news[symbols[i]]))
        /\ tasks[MacroTask].res =
             FetchMacroIndicators(MacroCall(MacroResponse(provider.macro)),
                                  fetched_at)
    /\ pc = "aborted" => \A i \in DOMAIN tasks : Ended(tasks[i])

\* The quote provider raised for sym, whatever the error.
QuoteProviderRaised(sym) == QuoteResponse(provider.quote[sym]).kind # "data"

\* C4: when the quote provider raises for X, whatever the error, stocks[X]
\* of the returned snapshot has error set and no numeric field, and the
\* entries of every other symbol Y are what Y's own quote and news fetches
\* yield, independent of X.
C4_QuoteFailureIsolated ==
    Returned =>
        \A x \in SymbolSet(symbols) :
            QuoteProviderRaised(x) =>
                /\ ErrorSet(snapshot.stocks[x])
                /\ NumericNull(snapshot.stocks[x])
                /\ \A y \in SymbolSet(symbols) \ {x} :
                    /\ snapshot.stocks[y] = ExpectedStock(y)
                    /\ snapshot.news[y] = ExpectedNews(y)

\* The provider raised for one symbol an error the adapter does not catch
\* and supplied data and articles for another.
C4_Witness ==
    /\ Returned
    /\ \E x, y \in SymbolSet(symbols) :
        /\ provider.quote[x] = "base_exception"
        /\ snapshot.stocks[x] = [symbol |-> x, error |-> "quote task aborted"]
        /\ provider.quote[y] = "full"
        /\ provider.news[y] = "articles"
        /\ snapshot.stocks[y].current_price = Some(150)
        /\ Len(snapshot.news[y]) = 2

\* C5: when exactly one of the four instruments fails, the macro mapping has
\* error set on exactly that label and the other three carry the value and
\* previous_close the provider supplied; the snapshot always has its macro
\* field.
C5_OneMacroFailure ==
    Returned =>
        /\ "macro" \in DOMAIN snapshot
        /\ (provider.macro.kind = "labels" /\ Cardinality(provider.macro.failing) = 1) =>
              \A label \in MacroLabels :
                  /\ label \in DOMAIN snapshot.macro
                  /\ ErrorSet(snapshot.macro[label]) <=> label \in provider.macro.failing
                  /\ label \notin provider.macro.failing =>
                       LET info == MacroInfo(MACRO_SYMBOLS[label])
                       IN  /\ snapshot.macro[label].value = info.regularMarketPrice
                           /\ snapshot.macro[label].previous_close =
                                  info.regularMarketPreviousClose

\* Only the dollar index lookup failed, and the volatility index carries the
\* provider's value and previous close.
C5_Witness ==
    /\ Returned
    /\ provider.macro = [kind |-> "labels", failing |-> {"DXY"}]
    /\ ErrorSet(snapshot.macro["DXY"])
    /\ snapshot.macro["VIX"].value = Some(18)
    /\ snapshot.macro["VIX"].previous_close = Some(17)

\* The provider outcomes for which fetch_news has no article to return.
NewsSoftFails(sym) ==
    \/ newsapi_key = ""
    \/ provider.news[sym] \in {"network_error", "bad_status", "malformed",
                               "no_articles"}

\* C6: without an API key, on a failed request or on zero articles, the news
\* fetch returns an empty sequence instead of raising, news[X] of the
\* snapshot is empty and the call returns.
C6_NewsSoftFail ==
    /\ pc # "raised"
    /\ \A i \in 1..n :
        (pc \in {"gathering", "returned"} /\ Terminal(tasks[n + i])
            /\ NewsSoftFails(symbols[i])) =>
                /\ tasks[n + i].st = "returned"
                /\ tasks[n + i].res = [tag |-> "list", val |-> <<>>]
                /\ Returned => snapshot.news[symbols[i]] = <<>>

\* The request failed for one symbol and the provider had no article for
\* another.
C6_Witness ==
    /\ Returned
    /\ \E x, y \in SymbolSet(symbols) :
        /\ provider.news[x] \in {"network_error", "bad_status", "malformed"}
        /\ provider.news[y] = "no_articles"
        /\ snapshot.news[x] = <<>>
        /\ snapshot.news[y] = <<>>

\* C7: in every returned snapshot, a quote with error set has every numeric
\* field absent or null, whether it comes from a successful fetch, from the
\* adapter's failure handler or from the aggregator's placeholder.
C7_ErrorExcludesNumbers ==
    Returned =>
        \A sym \in SymbolSet(symbols) :
            /\ ErrorSet(snapshot.stocks[sym]) => NumericNull(snapshot.stocks[sym])
            /\ ErrorSet(snapshot.stocks[sym]) <=>
                   QuoteResponse(provider.quote[sym]).kind # "data"

\* One snapshot holds a quote from the adapter's handler and one from the
\* aggregator's placeholder, put in place of a str.
C7_Witness ==
    /\ Returned
    /\ \E x, y \in SymbolSet(symbols) :
        /\ provider.quote[x] = "raise"
        /\ provider.quote[y] = "stop_iteration_subclass"
        /\ "fetched_at" \in DOMAIN snapshot.stocks[x]
        /\ ErrorSet(snapshot.stocks[x])
        /\ snapshot.stocks[y] = [symbol |-> y, error |-> "quote provider error"]

IndicatorFields == {"value", "previous_close", "change_pct", "error"}

\* d is a MacroIndicator record.
IsIndicator(d) == DOMAIN d \subseteq IndicatorFields /\ "value" \in DOMAIN d

\* C8 as stated: the keys of the macro mapping are drawn only from the four
\* labels, each mapped to a MacroIndicator record.
C8_OnlyLabelKeys ==
    Returned => DOMAIN snapshot.macro \subseteq MacroLabels

\* C8 amended: the keys of the macro mapping are the four labels, each mapped
\* to a MacroIndicator record, plus the top-level keys fetched_at and error:
\* a completed macro fetch yields all four labels and fetched_at, a macro
\* fetch that failed as a whole yields error and no label.
C8_LabelsPlusTopLevelKeys ==
    Returned =>
        LET keys == DOMAIN snapshot.macro
        IN  /\ keys \subseteq MacroLabels \cup {"fetched_at", "error"}
            /\ \A label \in keys \cap MacroLabels : IsIndicator(snapshot.macro[label])
            /\ \/ keys = MacroLabels \cup {"fetched_at"}
               \/ keys = {"error", "fetched_at"}
               \/ keys = {"error"}

\* A snapshot whose macro mapping has the four labels, one of them failed.
C8_Witness ==
    /\ Returned
    /\ MacroLabels \subseteq DOMAIN snapshot.macro
    /\ "fetched_at" \in DOMAIN snapshot.macro
    /\ \E label \in MacroLabels : ErrorSet(snapshot.macro[label])

TopLevelError(d) == "error" \in DOMAIN d /\ "fetched_at" \in DOMAIN d

\* Every instrument lookup raised.
TotalOutage == provider.macro = [kind |-> "labels", failing |-> MacroLabels]

\* The macro coroutine has come to its end.
MacroDone == Len(tasks) = 2 * n + 1 /\ Ended(tasks[MacroTask])

\* The errors of the threaded call that are raised at the await of line 117
\* as an Exception, or that end it with a value.
ReachesHandler == Caught \cup {"stop_iteration_subclass"}

\* C9 as stated: the macro fetch does not raise on a provider failure, and
\* when every instrument lookup fails its result carries a top-level error
\* next to fetched_at.
C9_OutageIsTopLevelError ==
    MacroDone =>
        /\ provider.macro.kind \in {"labels"} \cup ReachesHandler =>
             tasks[MacroTask].st = "returned"
        /\ TotalOutage => TopLevelError(tasks[MacroTask].res.val)

\* C9 amended: the macro fetch returns a mapping when the threaded call
\* returns and when it fails with an error that reaches line 117 as an
\* Exception or as a value; it raises exactly when the error arrives there
\* as a BaseException that is not an Exception.  When every instrument
\* lookup fails its result carries an error-only entry for each of the four
\* labels next to fetched_at and no top-level error; the top-level error
\* next to fetched_at is the result when the threaded call as a whole fails:
\* the text of the error, or that of the TypeError of line 118.
C9_OutageIsPerLabelErrors ==
    MacroDone =>
        /\ tasks[MacroTask].st = "returned" <=>
             provider.macro.kind \in {"labels"} \cup ReachesHandler
        /\ TotalOutage =>
            /\ DOMAIN tasks[MacroTask].res.val = MacroLabels \cup {"fetched_at"}
            /\ \A label \in MacroLabels :
                 tasks[MacroTask].res.val[label] =
                     [value |-> None, error |-> "macro lookup error"]
        /\ provider.macro.kind = "raise" =>
             tasks[MacroTask].res.val =
                 [error |-> "macro thread error", fetched_at |-> fetched_at]
        /\ provider.macro.kind = "stop_iteration_subclass" =>
             tasks[MacroTask].res.val =
                 [error |-> ItemAssignmentError, fetched_at |-> fetched_at]

\* The macro fetch has ended after every instrument lookup raised.
C9_Witness ==
    /\ MacroDone
    /\ TotalOutage
    /\ tasks[MacroTask].res.val["VIX"] = [value |-> None, error |-> "macro lookup error"]

\* d without its fetched_at key.
DropStamp(d) == [k \in DOMAIN d \ {"fetched_at"} |-> d[k]]

\* A snapshot without its fetched_at timestamps: the batch's, each quote's
\* and the macro mapping's.
StripStamps(snap) ==
    [stocks |-> [sym \in DOMAIN snap.stocks |-> DropStamp(snap.stocks[sym])],
     macro |-> DropStamp(snap.macro),
     news |-> snap.news]

\* C10: against a stable provider the second call with the same symbol list
\* returns the snapshot of the first, fetched_at timestamps aside, whatever
\* the completion order in either call.
C10_Idempotent ==
    (Returned /\ calls = 2) => StripStamps(snapshot) = StripStamps(first)

\* The second call on two symbols has returned a snapshot that differs from
\* the first only in its timestamps, with a quote the adapter caught failing
\* beside a quote with data.
C10_Witness ==
    /\ Returned
    /\ calls = 2
    /\ n = 2
    /\ snapshot # first
    /\ snapshot.fetched_at # first.fetched_at
    /\ \E x, y \in SymbolSet(symbols) :
        /\ provider.quote[x] = "raise"
        /\ provider.quote[y] = "full"
        /\ snapshot.stocks[x].fetched_at # first.stocks[x].fetched_at

\* C16: whatever the completion order, stocks[s] is the outcome of the quote
\* operation started for s (its symbol field is s), news[s] is the outcome of
\* the news operation started for s, and the macro mapping is the outcome of
\* the macro operation, never that of a quote or news slot.
C16_ResultsAttributedBySlot ==
    Returned =>
        /\ \A i \in 1..n :
            /\ snapshot.stocks[symbols[i]].symbol = symbols[i]
            /\ snapshot.stocks[symbols[i]] =
                 (IF tasks[i].res.tag = "dict" THEN tasks[i].res.val
                  ELSE [symbol |-> symbols[i], error |-> tasks[i].res.val])
            /\ snapshot.news[symbols[i]] =
                 (IF tasks[n + i].res.tag = "list" THEN tasks[n + i].res.val
                  ELSE <<>>)
        /\ snapshot.macro =
             (IF tasks[MacroTask].res.tag = "dict" THEN tasks[MacroTask].res.val
              ELSE [error |-> tasks[MacroTask].res.val])
        /\ "symbol" \notin DOMAIN snapshot.macro

\* Two symbols whose quote and news operations ended differently: the first
\* listed has articles and a quote task that returned a str, the second has
\* data and no article.
C16_Witness ==
    /\ Returned
    /\ n = 2
    /\ tasks[1].res.tag = "str"
    /\ provider.quote[symbols[2]] = "full"
    /\ provider.news[symbols[1]] = "articles"
    /\ provider.news[symbols[2]] = "no_articles"
    /\ Len(snapshot.news[symbols[1]]) = 2
    /\ snapshot.stocks[symbols[2]].current_price = Some(150)

\* C13 as stated: every entry of the competitor map lists at most 4
\* competitors, so get_competitors never returns more than 4 symbols.
C13_AtMostFour ==
    lookup.pc = "returned" =>
        /\ Len(lookup.competitors) <= 4
        /\ StrUpper(lookup.symbol) \in DOMAIN COMPETITOR_MAP =>
             Len(COMPETITOR_MAP[StrUpper(lookup.symbol)]) <= 4

\* C13 amended: every entry of the competitor map lists at most 5
\* competitors (the entry of TSLA lists 5), so get_competitors never returns
\* more than 5 symbols.
C13_AtMostFive ==
    lookup.pc = "returned" =>
        /\ Len(lookup.competitors) <= 5
        /\ StrUpper(lookup.symbol) \in DOMAIN COMPETITOR_MAP =>
             Len(COMPETITOR_MAP[StrUpper(lookup.symbol)]) <= 5

\* The lookup of tsla has returned its five competitors.
C13_Witness ==
    /\ lookup.pc = "returned"
    /\ lookup.symbol = <<"t", "s", "l", "a">>
    /\ lookup.competitors = <<"RIVN", "GM", "F", "BYD", "LCID">>

\* C14: the lookup ignores the case of its argument: the result for a ticker
\* equals the result for any other casing of it, it is the entry of the
\* capitalised ticker, and it is empty for a ticker that is not in the map.
C14_CaseInsensitive ==
    lookup.pc = "returned" =>
        /\ lookup.again => lookup.competitors = lookup.first_competitors
        /\ StrUpper(lookup.symbol) \in DOMAIN COMPETITOR_MAP =>
             lookup.competitors = COMPETITOR_MAP[StrUpper(lookup.symbol)]
        /\ StrUpper(lookup.symbol) \notin DOMAIN COMPETITOR_MAP =>
             lookup.competitors = <<>>

\* aapl was looked up after AAPL and both calls returned Apple's competitors.
C14_Witness ==
    /\ lookup.pc = "returned"
    /\ lookup.again
    /\ lookup.first_symbol = <<"A", "A", "P", "L">>
    /\ lookup.symbol = <<"a", "a", "p", "l">>
    /\ lookup.competitors = <<"MSFT", "GOOG", "SAMSUNG", "META">>
    /\ lookup.first_competitors = lookup.competitors

\* C15: with fewer than 2 points of 3-month history both performance fields
\* are null, with fewer than 20 points of 1-month history or a zero 20-day
\* mean volume the volume ratio is null; the quote has no error and its
\* price, 52-week range, P/Es and market cap are the provider's values.
C15_ShortHistoryIsNull ==
    Returned =>
        LET case == provider.quote[symbols[1]]
            info == HistoryResponse(case).info
            quote == snapshot.stocks[symbols[1]]
        IN  /\ case.hist3m < 2 =>
                 quote.perf_1m_pct = None /\ quote.perf_3m_pct = None
            /\ (case.hist1m < 20 \/ case.volume = 0) =>
                 quote.volume_ratio_5d_20d = None
            /\ ~ErrorSet(quote)
            /\ quote.current_price = Some(150)
            /\ quote.fifty_two_week_high = info.fiftyTwoWeekHigh
            /\ quote.fifty_two_week_low = info.fiftyTwoWeekLow
            /\ quote.pe_ratio = info.trailingPE
            /\ quote.forward_pe = info.forwardPE
            /\ quote.market_cap = info.marketCap

\* A quote built from one close and 19 days of volume: the derived fields
\* are null and the price is the provider's.
C15_Witness ==
    /\ Returned
    /\ provider.quote[symbols[1]] = [hist3m |-> 1, hist1m |-> 19, volume |-> 3]
    /\ snapshot.stocks[symbols[1]].perf_3m_pct = None
    /\ snapshot.stocks[symbols[1]].volume_ratio_5d_20d = None
    /\ snapshot.stocks[symbols[1]].current_price = Some(150)
    /\ ~ErrorSet(snapshot.stocks[symbols[1]])

\* Every task but the slow quote call is in a terminal state.
OthersTerminal ==
    /\ Len(tasks) = 2 * n + 1
    /\ \A i \in DOMAIN tasks : i # SlowTask => Terminal(tasks[i])

\* C11: one slow or never-ending quote call does not block the others: once
\* gather has started the tasks, every other quote call, the macro call and
\* every news call reaches a terminal state, whether or not the slow call
\* ever ends.
C11_NoHeadOfLineBlocking == (pc = "gathering") ~> OthersTerminal

\* More blocking calls than worker threads, the slow call still on its
\* worker thread, and every other quote call, every news fetch and the
\* macro call, which had to wait for a worker, all done.
C11_Witness ==
    /\ pc = "gathering"
    /\ n + 1 > PoolWorkers
    /\ tasks[SlowTask].st = "running"
    /\ OthersTerminal

\* C12: after the caller cancels, no fetch continues to run, blocking calls
\* on worker threads included, and nothing is written outside the tasks'
\* own result slots.
C12_NothingRunsAfterCancel ==
    pc = "cancelled" =>
        /\ \A i \in DOMAIN tasks : tasks[i].st \notin {"running", "orphaned"}
        /\ snapshot = NoSnapshot
        /\ first = NoSnapshot

====
